---- MODULE Spec2Model ----
(***************************************************************************)
(* chat-cli: the multi-provider conversational client.                     *)
(*                                                                         *)
(* The model follows internal/providers (one adapter per backend) and      *)
(* internal/cli (the client factory).  An adapter is a record holding the  *)
(* fields of the Go struct; Initialize and SendMessage are operators that  *)
(* return the adapter after the call together with the values returned to  *)
(* the caller.  The environment, the liveness probe and the backend's      *)
(* answer to a request are the inputs of the actions.                      *)
(***************************************************************************)
EXTENDS Integers, Sequences, FiniteSets, TLC

VARIABLES
    env,        \* the process environment: variable name -> value ("" when unset)
    pc,         \* "start", "ready", "createFailed", "direct", "crashed", "waiting",
                \* "done"
    adapter,    \* the adapter object last constructed (NoAdapter before)
    ret,        \* what CreateChatClient / a direct Initialize returned
    initCalls,  \* how many times an adapter's Initialize has been invoked
    turns,      \* the SendMessage calls that returned a nil error: <<text, reply>>
    failures,   \* how many SendMessage calls returned a non-nil error
    last,       \* the last SendMessage call: inputs, request sent, results
    opts,       \* the ChatOptions of the session
    history,    \* the entries of the history file, oldest first
    run         \* a run of the program from its command line: what it did

vars == <<env, pc, adapter, ret, initCalls, turns, failures, last, opts, history, run>>

----------------------------------------------------------------------------
(* Bounds of the model *)

MaxTurns == 2       \* SendMessage calls on one adapter instance
MaxFrames == 3      \* frames / events of one streamed answer
MaxShort == 2       \* the same, for the answers within a conversation
MaxEntries == 3     \* entries of the history file when it is shown
MaxLines == 2       \* lines on the standard input of an interactive session

----------------------------------------------------------------------------
(* Values *)

NoErr == "nil"
NoAdapter == [kind |-> "none"]

SystemRole == "system"
UserRole == "user"
AssistantRole == "assistant"

SeedPrompt == "Provide helpful and concise responses"

Msg(role, content) == [role |-> role, content |-> content]

\* cli.Provider constants
ProviderTogether == "together"
ProviderOllama == "ollama"
ProviderGroq == "groq"
ProviderSamba == "samba"
ProviderOpenAI == "openai"
ProviderGemini == "gemini"

Providers ==
    {ProviderTogether, ProviderOllama, ProviderGroq, ProviderSamba,
     ProviderOpenAI, ProviderGemini}

\* Provider is a string type: a caller can pass any name
ProviderNames == Providers \cup {"bogus"}

----------------------------------------------------------------------------
(* Alias tables.  A Go map lookup of a missing key yields "". *)

MapGet(m, k) == IF k \in DOMAIN m THEN m[k] ELSE ""

ollamaModels ==
    ("mistral" :> "mistral:latest") @@ ("llama" :> "llama3:latest") @@
    ("deepseek" :> "deepseek-coder:latest") @@ ("gemma" :> "gemma:latest")

openaiModels == ("gpt-4.1-nano" :> "gpt-4.1-nano")

groqModels == ("gemma" :> "gemma2-9b-it")

togetherModels ==
    ("llama-70b" :> "meta-llama/Llama-3.3-70B-Instruct-Turbo-Free") @@
    ("deepseek" :> "deepseek-ai/DeepSeek-R1-Distill-Llama-70B-free")

sambaModels == ("llama-70b" :> "Meta-Llama-3.3-70B-Instruct")

geminiModels ==
    ("gemini-pro" :> "gemini-2.5-pro-exp-03-25") @@
    ("gemini-flash" :> "gemini-2.5-flash-preview-04-17") @@
    ("gemini-flash-lite" :> "gemini-2.0-flash-lite")

----------------------------------------------------------------------------
(* The environment *)

KeyVar(p) ==
    CASE p = ProviderTogether -> "TOGETHER_API_KEY"
      [] p = ProviderGroq -> "GROQ_API_KEY"
      [] p = ProviderSamba -> "SAMBA_API_KEY"
      [] p = ProviderOpenAI -> "OPENAI_API_KEY"
      [] p = ProviderGemini -> "GEMINI_API_KEY"
      [] OTHER -> "OLLAMA_URL"

ModelVar(p) ==
    CASE p = ProviderTogether -> "TOGETHER_MODEL"
      [] p = ProviderGroq -> "GROQ_MODEL"
      [] p = ProviderSamba -> "SAMBA_MODEL"
      [] p = ProviderOpenAI -> "OPENAI_MODEL"
      [] p = ProviderGemini -> "GEMINI_MODEL"
      [] OTHER -> "OLLAMA_MODEL"

EnvVars == {KeyVar(p) : p \in Providers} \cup {ModelVar(p) : p \in Providers}

\* os.Getenv: "" for a variable that is unset
Getenv(e, name) == IF name \in DOMAIN e THEN e[name] ELSE ""

GoodKey == "sk-abcdefghijklmnopqrstuvwx"

\* values of a credential variable: unset, too short, well formed,
\* long without the sk- prefix, long with a character outside the allowed set
KeyValues ==
    {"", "sk-short", GoodKey, "gsk_abcdefghijklmnopqrstuv", "sk-abcdefghijklmnop qrs!"}

UrlValues == {"", "http://10.0.0.5:11434"}

AliasTable(p) ==
    CASE p = ProviderTogether -> togetherModels
      [] p = ProviderGroq -> groqModels
      [] p = ProviderSamba -> sambaModels
      [] p = ProviderOpenAI -> openaiModels
      [] p = ProviderGemini -> geminiModels
      [] OTHER -> ollamaModels

AliasValues(p) == DOMAIN AliasTable(p) \cup {"", "bogus"}

\* environments in which the variables of one provider are set and all
\* others are unset
FocusEnvs ==
    { [v \in EnvVars |->
          IF v = KeyVar(p) THEN k ELSE IF v = ModelVar(p) THEN a ELSE ""] :
      <<p, k, a>> \in
          { <<p, k, a>> \in Providers \X (KeyValues \cup UrlValues) \X
                            UNION {AliasValues(q) : q \in Providers} :
              /\ a \in AliasValues(p)
              /\ k \in (IF p = ProviderOllama THEN UrlValues ELSE KeyValues) } }

\* one alias of each table that is not the provider's default
OtherAlias(p) ==
    CASE p = ProviderTogether -> "deepseek"
      [] p = ProviderGemini -> "gemini-pro"
      [] p = ProviderOllama -> "mistral"
      [] OTHER -> ""

\* environments in which every provider has a well-formed credential; the
\* aliases are all unset, or set to a non-default alias where one exists
ChatEnvs ==
    { [v \in EnvVars |->
          IF v = "OLLAMA_URL" THEN ""
          ELSE IF v \in {KeyVar(p) : p \in Providers} THEN GoodKey
          ELSE IF known
               THEN OtherAlias(CHOOSE p \in Providers : ModelVar(p) = v)
               ELSE ""] :
      known \in BOOLEAN }

----------------------------------------------------------------------------
(* internal/utils: ValidateAPIKey *)

\* unicode.IsLetter, on the letters the keys of the model are written with
Letters ==
    {"a", "b", "c", "d", "e", "f", "g", "h", "i", "j", "k", "l", "m", "n", "o",
     "p", "q", "r", "s", "t", "u", "v", "w", "x", "y", "z",
     "A", "B", "C", "D", "E", "F", "G", "H", "I", "J", "K", "L", "M", "N", "O",
     "P", "Q", "R", "S", "T", "U", "V", "W", "X", "Y", "Z"}

Digits == {"0", "1", "2", "3", "4", "5", "6", "7", "8", "9"}

MinKeyLen == 20

ValidateAPIKey(key, provider) ==
    IF key = "" THEN FALSE
    ELSE IF Len(key) < MinKeyLen THEN FALSE
    ELSE IF \E i \in 1..Len(key) :
                SubSeq(key, i, i) \notin Letters \cup Digits \cup {"-", "_", "."}
         THEN FALSE
    ELSE IF provider = "openai" /\ Len(key) >= 3 /\ SubSeq(key, 1, 3) # "sk-"
         THEN FALSE
    ELSE TRUE

----------------------------------------------------------------------------
(* The adapters: construction and Initialize *)

\* &providers.XClient{}: the zero value of the struct.  timeout is the
\* Timeout, in seconds, of the http.Client the adapter creates for itself
\* (0: it creates none, or one without a limit).
NewAdapter(p) ==
    [kind |-> p, endpoint |-> "", apiKey |-> "", transport |-> FALSE,
     timeout |-> 0, selectedModel |-> "", messages |-> <<>>, logger |-> FALSE]

\* what the network answers during Initialize: the liveness probe of the
\* local backend and the construction of the Gemini SDK client
Probes == {"200", "500", "unreachable"}
Nets == [probe : Probes, sdk : {"ok", "fail"}]

\* only the local backend is probed and only Gemini constructs an SDK client:
\* the answers no Initialize of the provider asks for are held fixed
NetsFor(p) ==
    {n \in Nets : /\ (p # ProviderOllama => n.probe = "200")
                  /\ (p # ProviderGemini => n.sdk = "ok")}

DefaultOllamaURL == "http://localhost:11434"

\* variant: the lookup without the fallback to the default alias
SelectModelNoDefault(table, modelEnv, defaultAlias) ==
    MapGet(table, modelEnv)

\* the alias lookup every Initialize performs: the table entry, and the
\* entry of the default alias when the lookup yields ""
SelectModel(table, modelEnv, defaultAlias) ==
    IF MapGet(table, modelEnv) = ""
    THEN MapGet(table, defaultAlias)
    ELSE MapGet(table, modelEnv)

\* variant: any answer of the endpoint accepted, whatever its status
OllamaInitializeAnyStatus(a, e, net) ==
    LET url == IF Getenv(e, "OLLAMA_URL") = "" THEN DefaultOllamaURL
               ELSE Getenv(e, "OLLAMA_URL")
        a1 == [a EXCEPT !.endpoint = url,
                        !.transport = TRUE,
                        !.timeout = 60,
                        !.selectedModel =
                            SelectModel(ollamaModels, Getenv(e, "OLLAMA_MODEL"), "llama"),
                        !.messages = <<Msg(SystemRole, SeedPrompt)>>]
    IN  IF net.probe = "unreachable"
        THEN [a |-> a1, err |-> "could not connect to Ollama server"]
        ELSE [a |-> a1, err |-> NoErr]

\* the GET goes to o.serverURL (the endpoint field); net.probe is its outcome
OllamaInitialize(a, e, net) ==
    LET url == IF Getenv(e, "OLLAMA_URL") = "" THEN DefaultOllamaURL
               ELSE Getenv(e, "OLLAMA_URL")
        a1 == [a EXCEPT !.endpoint = url,
                        !.transport = TRUE,
                        !.timeout = 60,
                        !.selectedModel =
                            SelectModel(ollamaModels, Getenv(e, "OLLAMA_MODEL"), "llama"),
                        !.messages = <<Msg(SystemRole, SeedPrompt)>>]
    IN  IF net.probe = "unreachable"
        THEN [a |-> a1, err |-> "could not connect to Ollama server"]
        ELSE IF net.probe # "200"
        THEN [a |-> a1, err |-> "ollama server returned status"]
        ELSE [a |-> a1, err |-> NoErr]

OpenAIInitialize(a, e, net) ==
    LET apiKey == Getenv(e, "OPENAI_API_KEY")
    IN  IF apiKey = ""
        THEN [a |-> a, err |-> "OPENAI_API_KEY env var not set"]
        ELSE IF ~ValidateAPIKey(apiKey, "openai")
        THEN [a |-> a, err |-> "OPENAI_API_KEY appears invalid"]
        ELSE [a |-> [a EXCEPT !.transport = TRUE,
                              !.selectedModel =
                                  SelectModel(openaiModels, Getenv(e, "OPENAI_MODEL"),
                                              "gpt-4.1-nano"),
                              !.messages = <<Msg(SystemRole, SeedPrompt)>>],
              err |-> NoErr]

GroqInitialize(a, e, net) ==
    LET apiKey == Getenv(e, "GROQ_API_KEY")
    IN  IF apiKey = ""
        THEN [a |-> a, err |-> "GROQ_API_KEY env var not set"]
        ELSE [a |-> [a EXCEPT !.selectedModel =
                                  SelectModel(groqModels, Getenv(e, "GROQ_MODEL"), "gemma"),
                              !.endpoint = "https://api.groq.com/openai/v1",
                              !.transport = TRUE,
                              !.messages = <<Msg(SystemRole, SeedPrompt)>>],
              err |-> NoErr]

TogetherInitialize(a, e, net) ==
    LET apiKey == Getenv(e, "TOGETHER_API_KEY")
    IN  IF apiKey = ""
        THEN [a |-> a, err |-> "TOGETHER_API_KEY env var not set"]
        ELSE [a |-> [a EXCEPT !.selectedModel =
                                  SelectModel(togetherModels, Getenv(e, "TOGETHER_MODEL"),
                                              "llama-70b"),
                              !.endpoint = "https://api.together.xyz/v1",
                              !.transport = TRUE,
                              !.messages = <<Msg(SystemRole, SeedPrompt)>>],
              err |-> NoErr]

\* s.apiKey is assigned before it is tested; the message list is left empty
SambaInitialize(a, e, net) ==
    LET a1 == [a EXCEPT !.apiKey = Getenv(e, "SAMBA_API_KEY")]
    IN  IF a1.apiKey = ""
        THEN [a |-> a1, err |-> "SAMBA_API_KEY env var not set"]
        ELSE [a |-> [a1 EXCEPT !.selectedModel =
                                   SelectModel(sambaModels, Getenv(e, "SAMBA_MODEL"),
                                               "llama-70b"),
                               !.endpoint = "https://api.sambanova.ai/v1",
                               !.transport = TRUE,
                               !.timeout = 60],
              err |-> NoErr]

\* variant: the Gemini history starts with the system message
GeminiInitializeSeeded(a, e, net) ==
    LET apiKey == Getenv(e, "GEMINI_API_KEY")
    IN  IF apiKey = ""
        THEN [a |-> a, err |-> "GEMINI_API_KEY env var not set"]
        ELSE IF net.sdk = "fail"
        THEN [a |-> a, err |-> "failed to create Gemini client"]
        ELSE [a |-> [a EXCEPT !.transport = TRUE,
                              !.selectedModel =
                                  SelectModel(geminiModels, Getenv(e, "GEMINI_MODEL"),
                                              "gemini-flash-lite"),
                              !.messages = <<Msg(SystemRole, SeedPrompt)>>],
              err |-> NoErr]

\* genai.NewClient can fail; g.client is assigned only when it did not
GeminiInitialize(a, e, net) ==
    LET apiKey == Getenv(e, "GEMINI_API_KEY")
    IN  IF apiKey = ""
        THEN [a |-> a, err |-> "GEMINI_API_KEY env var not set"]
        ELSE IF net.sdk = "fail"
        THEN [a |-> a, err |-> "failed to create Gemini client"]
        ELSE [a |-> [a EXCEPT !.transport = TRUE,
                              !.selectedModel =
                                  SelectModel(geminiModels, Getenv(e, "GEMINI_MODEL"),
                                              "gemini-flash-lite"),
                              !.messages = <<>>],
              err |-> NoErr]

\* ChatInterface.Initialize, dispatched on the concrete type
Initialize(a, e, net) ==
    CASE a.kind = ProviderOllama -> OllamaInitialize(a, e, net)
      [] a.kind = ProviderOpenAI -> OpenAIInitialize(a, e, net)
      [] a.kind = ProviderGroq -> GroqInitialize(a, e, net)
      [] a.kind = ProviderTogether -> TogetherInitialize(a, e, net)
      [] a.kind = ProviderSamba -> SambaInitialize(a, e, net)
      [] a.kind = ProviderGemini -> GeminiInitialize(a, e, net)

\* ChatInterface.GetModelName: every adapter returns its selectedModel field
GetModelName(a) == a.selectedModel

----------------------------------------------------------------------------
(* internal/cli: the client factory *)

\* SetLogger, reached through the optional-capability check of the factory
SetLogger(a) == [a EXCEPT !.logger = TRUE]

\* variant: the factory without the credential check before construction
CreateChatClientNoGate(provider, e, net) ==
    IF provider \notin Providers
    THEN [client |-> NoAdapter, err |-> "unsupported provider",
          built |-> NoAdapter, inits |-> 0]
    ELSE LET r == Initialize(NewAdapter(provider), e, net)
         IN  IF r.err # NoErr
             THEN [client |-> NoAdapter, err |-> r.err, built |-> r.a, inits |-> 1]
             ELSE [client |-> SetLogger(r.a), err |-> NoErr,
                   built |-> SetLogger(r.a), inits |-> 1]

\* variant: the factory without the return that follows a failed Initialize
CreateChatClientKeepClient(provider, e, net) ==
    IF provider \notin Providers
    THEN [client |-> NoAdapter, err |-> "unsupported provider",
          built |-> NoAdapter, inits |-> 0]
    ELSE IF provider # ProviderOllama /\ Getenv(e, KeyVar(provider)) = ""
    THEN [client |-> NoAdapter, err |-> "API key not set for provider",
          built |-> NoAdapter, inits |-> 0]
    ELSE LET r == Initialize(NewAdapter(provider), e, net)
         IN  [client |-> SetLogger(r.a), err |-> r.err,
              built |-> SetLogger(r.a), inits |-> 1]

\* variant: the credential check applied to the local backend as well
CreateChatClientGateAll(provider, e, net) ==
    IF provider \notin Providers
    THEN [client |-> NoAdapter, err |-> "unsupported provider",
          built |-> NoAdapter, inits |-> 0]
    ELSE IF Getenv(e, KeyVar(provider)) = ""
    THEN [client |-> NoAdapter, err |-> "API key not set for provider",
          built |-> NoAdapter, inits |-> 0]
    ELSE LET r == Initialize(NewAdapter(provider), e, net)
         IN  IF r.err # NoErr
             THEN [client |-> NoAdapter, err |-> r.err, built |-> r.a, inits |-> 1]
             ELSE [client |-> SetLogger(r.a), err |-> NoErr,
                   built |-> SetLogger(r.a), inits |-> 1]

\* The result names the client returned (NoAdapter for nil), the error, the
\* adapter object that was constructed on the way (NoAdapter when none was)
\* and the number of Initialize invocations.
CreateChatClient(provider, e, net) ==
    IF provider \notin Providers
    THEN [client |-> NoAdapter, err |-> "unsupported provider",
          built |-> NoAdapter, inits |-> 0]
    ELSE IF provider # ProviderOllama /\ Getenv(e, KeyVar(provider)) = ""
    THEN [client |-> NoAdapter, err |-> "API key not set for provider",
          built |-> NoAdapter, inits |-> 0]
    ELSE LET r == Initialize(NewAdapter(provider), e, net)
         IN  IF r.err # NoErr
             THEN [client |-> NoAdapter, err |-> r.err, built |-> r.a, inits |-> 1]
             ELSE [client |-> SetLogger(r.a), err |-> NoErr,
                   built |-> SetLogger(r.a), inits |-> 1]

----------------------------------------------------------------------------
(* What a backend answers to one request *)

\* user inputs
Texts == {"hi", "yo"}

\* the replies a backend generates, as the pieces it can cut them into
Replies == {<<"Hel", "lo">>}

RECURSIVE Join(_)
Join(ss) == IF ss = <<>> THEN "" ELSE Head(ss) \o Join(Tail(ss))

\* strings.Contains
Contains(s, sub) ==
    \E i \in 1..(Len(s) + 1 - Len(sub)) : SubSeq(s, i, i + Len(sub) - 1) = sub

\* the ways of cutting ts into n consecutive fragments, empty ones included
Splits(ts, n) ==
    IF n = 0 THEN (IF ts = <<>> THEN {<<>>} ELSE {})
    ELSE { [i \in 1..n |->
               Join(SubSeq(ts, (IF i = 1 THEN 0 ELSE c[i - 1]) + 1,
                               IF i = n THEN Len(ts) ELSE c[i]))] :
           c \in { c \in [1..(n - 1) -> 0..Len(ts)] :
                       \A i \in 1..(n - 2) : c[i] <= c[i + 1] } }

\* the fragment sequences a stream can deliver before it ends or breaks:
\* a reply, or a prefix of it, in at most MaxFrames fragments
Contents ==
    UNION { UNION { UNION { Splits(SubSeq(r, 1, m), n) : n \in 0..MaxFrames } :
                    m \in 0..Len(r) } :
            r \in Replies }

\* the errors a read of the stream can return
ErrEOF == [is |-> "io.EOF", msg |-> "EOF"]
ErrUnexpectedEOF == [is |-> "io.ErrUnexpectedEOF", msg |-> "unexpected EOF"]
ErrSyntax == [is |-> "json.SyntaxError", msg |-> "invalid character"]
ErrReset == [is |-> "net.OpError", msg |-> "connection reset by peer"]
ErrDone == [is |-> "iterator.Done", msg |-> "no more items in iterator"]

\* One frame of a stream.  content: the text fragment it carries.  done: the
\* completion flag of a chunked-JSON frame.  choices: the number of choices
\* (SSE) or candidates (Gemini) of the event; content belongs to the first.
Frame(content, done, choices) ==
    [content |-> content, done |-> done, choices |-> choices]

\* Chunked JSON (local backend): at most one frame is flagged done, at any
\* position; the read after the last frame returns term.
OllamaScripts ==
    { [pre |-> "ok", term |-> t,
       frames |-> [i \in 1..Len(cs) |-> Frame(cs[i], i = d, 1)]] :
      <<cs, d, t>> \in { <<cs, d, t>> \in Contents \X (0..MaxFrames) \X
                                    {ErrEOF, ErrUnexpectedEOF, ErrSyntax} :
                             d <= Len(cs) } }
    \cup { [pre |-> q, term |-> ErrEOF, frames |-> <<>>] : q \in {"sendError", "status500"} }

\* Delta events (OpenAI, Groq, Together): at most one event without choices,
\* which carries no text; Recv after the last event returns term.
SSEScripts ==
    { [pre |-> "ok", term |-> t,
       frames |-> [i \in 1..Len(cs) |-> Frame(cs[i], FALSE, IF i = d THEN 0 ELSE 1)]] :
      <<cs, d, t>> \in { <<cs, d, t>> \in Contents \X (0..MaxFrames) \X
                                    {ErrEOF, ErrUnexpectedEOF, ErrReset} :
                             d <= Len(cs) /\ (d > 0 => cs[d] = "") } }
    \cup { [pre |-> "createError", term |-> ErrEOF, frames |-> <<>>] }

\* Gemini: the iterator yields responses and then iterator.Done or an error;
\* a request that fails shows as the error of the first Next.
GeminiScripts ==
    { [pre |-> "ok", term |-> t,
       frames |-> [i \in 1..Len(cs) |-> Frame(cs[i], FALSE, IF i = d THEN 0 ELSE 1)]] :
      <<cs, d, t>> \in { <<cs, d, t>> \in Contents \X (0..MaxFrames) \X
                                    {ErrDone, ErrReset} :
                             d <= Len(cs) /\ (d > 0 => cs[d] = "") } }

\* Single-shot JSON (SambaNova): the transport outcome, the status, the
\* body as text, whether the body parses, and the content of each choice.
SambaScripts ==
    { [pre |-> "ok", status |-> 200, body |-> "{choices}", json |-> TRUE, choices |-> c] :
      c \in {<<>>, <<"">>} \cup {<<Join(r)>> : r \in Replies}
            \cup {<<Join(r), "other">> : r \in Replies} }
    \cup { [pre |-> "ok", status |-> 200, body |-> "<html>", json |-> FALSE,
            choices |-> <<>>],
           [pre |-> "ok", status |-> 500, body |-> "{error}", json |-> TRUE,
            choices |-> <<>>],
           [pre |-> "ok", status |-> 429, body |-> "slow down", json |-> FALSE,
            choices |-> <<>>],
           [pre |-> "ok", status |-> 302, body |-> "", json |-> FALSE,
            choices |-> <<>>],
           [pre |-> "sendError", status |-> 0, body |-> "", json |-> FALSE,
            choices |-> <<>>] }

\* the answers each backend can give to one request
Scripts ==
    [kind \in Providers |->
        CASE kind = ProviderOllama -> OllamaScripts
          [] kind = ProviderGemini -> GeminiScripts
          [] kind = ProviderSamba -> SambaScripts
          [] OTHER -> SSEScripts]

\* A backend that stops answering.  pre = "silent": the request is never
\* answered.  term = ErrStall: after the frames, the next read never gets
\* any data.
ErrStall == [is |-> "blocked", msg |-> ""]

\* what a read returns when the http.Client's Timeout or the request
\* context's deadline expires
ErrTimeout == [is |-> "net.Error", msg |-> "context deadline exceeded"]

\* the fragments delivered before the backend falls silent
ShortContents == {cs \in Contents : Len(cs) <= MaxShort}

HangScripts ==
    [kind \in Providers |->
        CASE kind = ProviderSamba ->
                 { [pre |-> "silent", status |-> 0, body |-> "", json |-> FALSE,
                    choices |-> <<>>] }
          [] kind = ProviderGemini ->
                 { [pre |-> "ok", term |-> ErrStall,
                    frames |-> [i \in 1..Len(cs) |-> Frame(cs[i], FALSE, 1)]] :
                   cs \in ShortContents }
          [] OTHER ->
                 { [pre |-> "ok", term |-> ErrStall,
                    frames |-> [i \in 1..Len(cs) |-> Frame(cs[i], FALSE, 1)]] :
                   cs \in ShortContents }
                 \cup { [pre |-> "silent", term |-> ErrStall, frames |-> <<>>] }]

Hangs(s) == s.pre = "silent" \/ (s.pre = "ok" /\ "term" \in DOMAIN s /\ s.term = ErrStall)

\* the deadline, in seconds, of the context SendMessage gives its request
\* (0 for context.Background())
RequestDeadline(kind) == IF kind = ProviderSamba THEN 90 ELSE 0

\* a read on a backend that stopped answering returns only when a limit
\* expires: without a client timeout and without a deadline it never does
Blocks(a, s) == Hangs(s) /\ a.timeout = 0 /\ RequestDeadline(a.kind) = 0

\* what the adapter's reads see of the answer s: the read that would wait
\* forever fails with a timeout error when a limit is set
Observed(a, s) ==
    IF ~Hangs(s) \/ Blocks(a, s) THEN s
    ELSE IF s.pre = "silent"
    THEN [s EXCEPT !.pre = CASE a.kind = ProviderSamba -> "expired"
                             [] a.kind = ProviderOllama -> "sendError"
                             [] OTHER -> "createError"]
    ELSE [s EXCEPT !.term = ErrTimeout]

\* ctx.Err() == context.DeadlineExceeded at the moment the request fails on
\* an expired limit: the context's deadline is reached no later than the
\* http.Client's Timeout
CtxExpired(a) ==
    /\ RequestDeadline(a.kind) > 0
    /\ (a.timeout = 0 \/ RequestDeadline(a.kind) <= a.timeout)

\* the answers within a conversation: at most MaxShort frames, none of them
\* empty but a frame flagged done and an event without choices
ShortScripts ==
    [kind \in Providers |->
        IF kind = ProviderSamba THEN SambaScripts
        ELSE {s \in Scripts[kind] :
                 /\ Len(s.frames) <= MaxShort
                 /\ \A i \in 1..Len(s.frames) :
                        s.frames[i].content = ""
                            => (s.frames[i].done \/ s.frames[i].choices = 0)}]

----------------------------------------------------------------------------
(* The adapters: SendMessage *)

\* What a SendMessage call yields: the adapter after the call, the returned
\* text and error, the message lists of the requests it issued, and whether
\* the call panicked instead of returning.
SendResult(a, resp, err, requests, panic) ==
    [a |-> a, resp |-> resp, err |-> err, requests |-> requests, panic |-> panic]

\* an append that also forgets the model resolved by Initialize
AppendMsgResetModel(a, role, content) ==
    [a EXCEPT !.messages = Append(@, Msg(role, content)), !.selectedModel = ""]

AppendMsg(a, role, content) ==
    [a EXCEPT !.messages = Append(@, Msg(role, content))]

\* variant: the loop testing the done flag before it takes the content
RECURSIVE OllamaRecvDoneFirst(_, _, _)
OllamaRecvDoneFirst(frames, term, fullResponse) ==
    IF frames = <<>>
    THEN IF term = ErrEOF
         THEN [resp |-> fullResponse, err |-> NoErr]
         ELSE [resp |-> fullResponse, err |-> "failed to decode response"]
    ELSE IF Head(frames).done
         THEN [resp |-> fullResponse, err |-> NoErr]
         ELSE OllamaRecvDoneFirst(Tail(frames), term,
                                  fullResponse \o Head(frames).content)

\* variant: the loop reading on after a frame flagged done
RECURSIVE OllamaRecvIgnoreDone(_, _, _)
OllamaRecvIgnoreDone(frames, term, fullResponse) ==
    IF frames = <<>>
    THEN IF term = ErrEOF
         THEN [resp |-> fullResponse, err |-> NoErr]
         ELSE [resp |-> fullResponse, err |-> "failed to decode response"]
    ELSE OllamaRecvIgnoreDone(Tail(frames), term, fullResponse \o Head(frames).content)

\* the receive loop of the local backend: decode, concatenate, stop on done
RECURSIVE OllamaRecv(_, _, _)
OllamaRecv(frames, term, fullResponse) ==
    IF frames = <<>>
    THEN IF term = ErrEOF
         THEN [resp |-> fullResponse, err |-> NoErr]
         ELSE [resp |-> fullResponse, err |-> "failed to decode response"]
    ELSE LET acc == fullResponse \o Head(frames).content
         IN  IF Head(frames).done
             THEN [resp |-> acc, err |-> NoErr]
             ELSE OllamaRecv(Tail(frames), term, acc)

OllamaSendMessage(a, message, s) ==
    LET a1 == AppendMsg(a, UserRole, message)
    IN  IF s.pre = "sendError"
        THEN SendResult(a1, "", "failed to send request", <<a1.messages>>, FALSE)
        ELSE IF s.pre = "status500"
        THEN SendResult(a1, "", "API request failed", <<a1.messages>>, FALSE)
        ELSE LET r == OllamaRecv(s.frames, s.term, "")
             IN  IF r.err # NoErr
                 THEN SendResult(a1, r.resp, r.err, <<a1.messages>>, FALSE)
                 ELSE SendResult(AppendMsg(a1, AssistantRole, r.resp), r.resp, NoErr,
                                 <<a1.messages>>, FALSE)

\* variant: the loop left at an event without choices
RECURSIVE OpenAIRecvStopOnNoChoices(_, _, _)
OpenAIRecvStopOnNoChoices(frames, term, fullResponse) ==
    IF frames = <<>>
    THEN IF term = ErrEOF \/ Contains(term.msg, "EOF")
         THEN [resp |-> fullResponse, err |-> NoErr]
         ELSE [resp |-> fullResponse, err |-> "stream error"]
    ELSE IF Head(frames).choices > 0
         THEN OpenAIRecvStopOnNoChoices(Tail(frames), term,
                                        fullResponse \o Head(frames).content)
         ELSE [resp |-> fullResponse, err |-> NoErr]

\* the receive loop of the OpenAI client; Groq and Together repeat it
RECURSIVE OpenAIRecv(_, _, _)
OpenAIRecv(frames, term, fullResponse) ==
    IF frames = <<>>
    THEN IF term = ErrEOF \/ Contains(term.msg, "EOF")
         THEN [resp |-> fullResponse, err |-> NoErr]
         ELSE [resp |-> fullResponse, err |-> "stream error"]
    ELSE IF Head(frames).choices > 0
         THEN OpenAIRecv(Tail(frames), term, fullResponse \o Head(frames).content)
         ELSE OpenAIRecv(Tail(frames), term, fullResponse)

\* variant: the partial text recorded as an assistant message on a stream error
OpenAISendMessageKeepPartial(a, message, s) ==
    LET a1 == AppendMsg(a, UserRole, message)
    IN  IF s.pre = "createError"
        THEN SendResult(a1, "", "failed to create stream", <<a1.messages>>, FALSE)
        ELSE LET r == OpenAIRecv(s.frames, s.term, "")
             IN  SendResult(AppendMsg(a1, AssistantRole, r.resp), r.resp, r.err,
                            <<a1.messages>>, FALSE)

OpenAISendMessage(a, message, s) ==
    LET a1 == AppendMsg(a, UserRole, message)
    IN  IF s.pre = "createError"
        THEN SendResult(a1, "", "failed to create stream", <<a1.messages>>, FALSE)
        ELSE LET r == OpenAIRecv(s.frames, s.term, "")
             IN  IF r.err # NoErr
                 THEN SendResult(a1, r.resp, r.err, <<a1.messages>>, FALSE)
                 ELSE SendResult(AppendMsg(a1, AssistantRole, r.resp), r.resp, NoErr,
                                 <<a1.messages>>, FALSE)

RECURSIVE GroqRecv(_, _, _)
GroqRecv(frames, term, fullResponse) ==
    IF frames = <<>>
    THEN IF term = ErrEOF \/ Contains(term.msg, "EOF")
         THEN [resp |-> fullResponse, err |-> NoErr]
         ELSE [resp |-> fullResponse, err |-> "stream error"]
    ELSE IF Head(frames).choices > 0
         THEN GroqRecv(Tail(frames), term, fullResponse \o Head(frames).content)
         ELSE GroqRecv(Tail(frames), term, fullResponse)

GroqSendMessage(a, message, s) ==
    LET a1 == AppendMsg(a, UserRole, message)
    IN  IF s.pre = "createError"
        THEN SendResult(a1, "", "failed to create stream", <<a1.messages>>, FALSE)
        ELSE LET r == GroqRecv(s.frames, s.term, "")
             IN  IF r.err # NoErr
                 THEN SendResult(a1, r.resp, r.err, <<a1.messages>>, FALSE)
                 ELSE SendResult(AppendMsg(a1, AssistantRole, r.resp), r.resp, NoErr,
                                 <<a1.messages>>, FALSE)

\* variant: each fragment put in front of the text assembled so far
RECURSIVE TogetherRecvPrepend(_, _, _)
TogetherRecvPrepend(frames, term, fullResponse) ==
    IF frames = <<>>
    THEN IF term = ErrEOF \/ Contains(term.msg, "EOF")
         THEN [resp |-> fullResponse, err |-> NoErr]
         ELSE [resp |-> fullResponse, err |-> "stream error"]
    ELSE IF Head(frames).choices > 0
         THEN TogetherRecvPrepend(Tail(frames), term, Head(frames).content \o fullResponse)
         ELSE TogetherRecvPrepend(Tail(frames), term, fullResponse)

RECURSIVE TogetherRecv(_, _, _)
TogetherRecv(frames, term, fullResponse) ==
    IF frames = <<>>
    THEN IF term = ErrEOF \/ Contains(term.msg, "EOF")
         THEN [resp |-> fullResponse, err |-> NoErr]
         ELSE [resp |-> fullResponse, err |-> "stream error"]
    ELSE IF Head(frames).choices > 0
         THEN TogetherRecv(Tail(frames), term, fullResponse \o Head(frames).content)
         ELSE TogetherRecv(Tail(frames), term, fullResponse)

TogetherSendMessage(a, message, s) ==
    LET a1 == AppendMsg(a, UserRole, message)
    IN  IF s.pre = "createError"
        THEN SendResult(a1, "", "failed to create stream", <<a1.messages>>, FALSE)
        ELSE LET r == TogetherRecv(s.frames, s.term, "")
             IN  IF r.err # NoErr
                 THEN SendResult(a1, r.resp, r.err, <<a1.messages>>, FALSE)
                 ELSE SendResult(AppendMsg(a1, AssistantRole, r.resp), r.resp, NoErr,
                                 <<a1.messages>>, FALSE)

\* the receive loop of the Gemini client; resp.Candidates[0] of a response
\* without candidates is an index out of range: the call panics
RECURSIVE GeminiRecv(_, _, _)
GeminiRecv(frames, term, fullResponse) ==
    IF frames = <<>>
    THEN IF term = ErrDone
         THEN [resp |-> fullResponse, err |-> NoErr, panic |-> FALSE]
         ELSE [resp |-> fullResponse, err |-> "stream error", panic |-> FALSE]
    ELSE IF Head(frames).choices = 0
         THEN [resp |-> fullResponse, err |-> NoErr, panic |-> TRUE]
         ELSE GeminiRecv(Tail(frames), term, fullResponse \o Head(frames).content)

\* the chat session is given all earlier messages as its history and the
\* new text as the message to send
GeminiSendMessage(a, message, s) ==
    LET a1 == AppendMsg(a, UserRole, message)
        csHistory == IF Len(a1.messages) > 1
                     THEN SubSeq(a1.messages, 1, Len(a1.messages) - 1)
                     ELSE <<>>
        request == Append(csHistory, Msg(UserRole, message))
        r == GeminiRecv(s.frames, s.term, "")
    IN  IF r.panic
        THEN SendResult(a1, r.resp, NoErr, <<request>>, TRUE)
        ELSE IF r.err # NoErr
        THEN SendResult(a1, r.resp, r.err, <<request>>, FALSE)
        ELSE SendResult(AppendMsg(a1, AssistantRole, r.resp), r.resp, NoErr,
                        <<request>>, FALSE)

\* fmt.Errorf("API request failed (%d): %s", resp.StatusCode, string(respBody))
StatusError(status, body) ==
    "API request failed (" \o ToString(status) \o "): " \o body

\* variant: the user message stored before the request is sent
SambaSendMessageStoreFirst(a, message, s) ==
    LET currentMessages == Append(a.messages, Msg(UserRole, message))
        a1 == [a EXCEPT !.messages = currentMessages]
    IN  IF s.pre = "expired" /\ CtxExpired(a)
        THEN SendResult(a1, "", "request timed out after 90s", <<currentMessages>>, FALSE)
        ELSE IF s.pre \in {"sendError", "expired"}
        THEN SendResult(a1, "", "failed to send request", <<currentMessages>>, FALSE)
        ELSE IF s.status # 200
        THEN SendResult(a1, "", StatusError(s.status, s.body), <<currentMessages>>, FALSE)
        ELSE IF ~s.json
        THEN SendResult(a1, "", "failed to decode response", <<currentMessages>>, FALSE)
        ELSE IF Len(s.choices) = 0 \/ s.choices[1] = ""
        THEN SendResult(a1, "", NoErr, <<currentMessages>>, FALSE)
        ELSE SendResult([a EXCEPT !.messages =
                             Append(currentMessages, Msg(AssistantRole, s.choices[1]))],
                        s.choices[1], NoErr, <<currentMessages>>, FALSE)

\* variant: an answer without choices or content reported as an error
SambaSendMessageEmptyIsError(a, message, s) ==
    LET currentMessages == Append(a.messages, Msg(UserRole, message))
    IN  IF s.pre = "expired" /\ CtxExpired(a)
        THEN SendResult(a, "", "request timed out after 90s", <<currentMessages>>, FALSE)
        ELSE IF s.pre \in {"sendError", "expired"}
        THEN SendResult(a, "", "failed to send request", <<currentMessages>>, FALSE)
        ELSE IF s.status # 200
        THEN SendResult(a, "", StatusError(s.status, s.body), <<currentMessages>>, FALSE)
        ELSE IF ~s.json
        THEN SendResult(a, "", "failed to decode response", <<currentMessages>>, FALSE)
        ELSE IF Len(s.choices) = 0 \/ s.choices[1] = ""
        THEN SendResult(a, "", "no choices returned", <<currentMessages>>, FALSE)
        ELSE SendResult([a EXCEPT !.messages =
                             Append(currentMessages, Msg(AssistantRole, s.choices[1]))],
                        s.choices[1], NoErr, <<currentMessages>>, FALSE)

\* variant: only the last exchange is kept
SambaSendMessageKeepLast(a, message, s) ==
    LET currentMessages == Append(a.messages, Msg(UserRole, message))
    IN  IF s.pre = "expired" /\ CtxExpired(a)
        THEN SendResult(a, "", "request timed out after 90s", <<currentMessages>>, FALSE)
        ELSE IF s.pre \in {"sendError", "expired"}
        THEN SendResult(a, "", "failed to send request", <<currentMessages>>, FALSE)
        ELSE IF s.status # 200
        THEN SendResult(a, "", StatusError(s.status, s.body), <<currentMessages>>, FALSE)
        ELSE IF ~s.json
        THEN SendResult(a, "", "failed to decode response", <<currentMessages>>, FALSE)
        ELSE IF Len(s.choices) = 0 \/ s.choices[1] = ""
        THEN SendResult(a, "", NoErr, <<currentMessages>>, FALSE)
        ELSE SendResult([a EXCEPT !.messages =
                             <<Msg(UserRole, message), Msg(AssistantRole, s.choices[1])>>],
                        s.choices[1], NoErr, <<currentMessages>>, FALSE)

\* single shot: s.messages is replaced only on the last path
SambaSendMessage(a, message, s) ==
    LET currentMessages == Append(a.messages, Msg(UserRole, message))
    IN  IF s.pre = "expired" /\ CtxExpired(a)
        THEN SendResult(a, "", "request timed out after 90s", <<currentMessages>>, FALSE)
        ELSE IF s.pre \in {"sendError", "expired"}
        THEN SendResult(a, "", "failed to send request", <<currentMessages>>, FALSE)
        ELSE IF s.status # 200
        THEN SendResult(a, "", StatusError(s.status, s.body), <<currentMessages>>, FALSE)
        ELSE IF ~s.json
        THEN SendResult(a, "", "failed to decode response", <<currentMessages>>, FALSE)
        ELSE IF Len(s.choices) = 0 \/ s.choices[1] = ""
        THEN SendResult(a, "", NoErr, <<currentMessages>>, FALSE)
        ELSE SendResult([a EXCEPT !.messages =
                             Append(currentMessages, Msg(AssistantRole, s.choices[1]))],
                        s.choices[1], NoErr, <<currentMessages>>, FALSE)

\* ChatInterface.SendMessage, dispatched on the concrete type
SendMessage(a, message, s) ==
    CASE a.kind = ProviderOllama -> OllamaSendMessage(a, message, s)
      [] a.kind = ProviderOpenAI -> OpenAISendMessage(a, message, s)
      [] a.kind = ProviderGroq -> GroqSendMessage(a, message, s)
      [] a.kind = ProviderTogether -> TogetherSendMessage(a, message, s)
      [] a.kind = ProviderSamba -> SambaSendMessage(a, message, s)
      [] a.kind = ProviderGemini -> GeminiSendMessage(a, message, s)

----------------------------------------------------------------------------
(* internal/cli: one exchange of a session, and the history store *)

\* the options sendMessageAndLogHistory reads
Opts == [SkipHistory : BOOLEAN]

\* len(strings.Split(s, " "))
SplitCount(str) == 1 + Cardinality({i \in 1..Len(str) : SubSeq(str, i, i) = " "})

\* history.Entry as sendMessageAndLogHistory fills it; the timestamp, the
\* elapsed time and the optional prompt assessment are left out
Entry(o, client, text, response) ==
    [Provider |-> o.Provider,
     ModelName |-> GetModelName(client),
     Prompt |-> text,
     Response |-> response,
     InputTokens |-> SplitCount(text),
     OutputTokens |-> SplitCount(response),
     TotalTokens |-> SplitCount(text) + SplitCount(response)]

\* the history file when the session starts: one entry of an earlier session
StoredBefore ==
    <<Entry([Provider |-> ProviderOllama], [selectedModel |-> "llama3:latest"],
            "ping", "pong")>>

\* history.AddEntry: load the file, append, save
AddEntry(h, entry) == Append(h, entry)

\* history.ClearHistory: save an empty history
ClearHistory(h) == <<>>

TruncateLen == 100

\* truncateString
truncateString(str, maxLen) ==
    IF Len(str) <= maxLen THEN str
    ELSE SubSeq(str, 1, maxLen - 3) \o "..."

\* the block ShowHistory prints for the i-th entry of the slice it shows
Shown(i, entry) ==
    [number |-> i, Provider |-> entry.Provider, ModelName |-> entry.ModelName,
     Prompt |-> truncateString(entry.Prompt, TruncateLen),
     Response |-> truncateString(entry.Response, TruncateLen),
     InputTokens |-> entry.InputTokens, OutputTokens |-> entry.OutputTokens,
     TotalTokens |-> entry.TotalTokens]

\* a ShowHistory that prints from the oldest entry on
ShowHistoryOldest(h, count) ==
    LET n == IF count > 0 /\ count < Len(h) THEN count ELSE Len(h)
    IN  [shown |-> [i \in 1..n |-> Shown(i, h[i])], stored |-> h]

\* history.ShowHistory: load the file and print the entries from startIdx
\* on; the file is not written.  Yields what is printed and what is stored.
ShowHistory(h, count) ==
    LET startIdx == IF count > 0 /\ count < Len(h) THEN Len(h) - count ELSE 0
        entries == SubSeq(h, startIdx + 1, Len(h))
    IN  [shown |-> [i \in 1..Len(entries) |-> Shown(i, entries[i])], stored |-> h]

\* what sendMessageAndLogHistory yields: the result of the SendMessage
\* calls it made and their number, the text and error it returns, and the
\* history file afterwards
Exchanged(sent, sends, response, err, h) ==
    [sent |-> sent, sends |-> sends, response |-> response, err |-> err, history |-> h]

\* variant: a failed SendMessage tried a second time
sendMessageAndLogHistoryRetry(client, text, o, h, s) ==
    LET r1 == SendMessage(client, text, s)
        again == ~r1.panic /\ r1.err # NoErr
        r2 == SendMessage(r1.a, text, s)
        r == IF again
             THEN [r2 EXCEPT !.requests = r1.requests \o r2.requests]
             ELSE r1
    IN  IF r.panic
        THEN Exchanged(r, IF again THEN 2 ELSE 1, "", NoErr, h)
        ELSE IF r.err # NoErr
        THEN Exchanged(r, 2, "", r.err, h)
        ELSE IF o.SkipHistory
        THEN Exchanged(r, IF again THEN 2 ELSE 1, r.resp, NoErr, h)
        ELSE Exchanged(r, IF again THEN 2 ELSE 1, r.resp, NoErr,
                       AddEntry(h, Entry(o, r.a, text, r.resp)))

\* variant: the entry appended whatever SkipHistory says
sendMessageAndLogHistoryAlwaysLog(client, text, o, h, s) ==
    LET r == SendMessage(client, text, s)
    IN  IF r.panic
        THEN Exchanged(r, 1, "", NoErr, h)
        ELSE IF r.err # NoErr
        THEN Exchanged(r, 1, "", r.err, h)
        ELSE Exchanged(r, 1, r.resp, NoErr, AddEntry(h, Entry(o, r.a, text, r.resp)))

\* client.SendMessage is called once; on an error the text it returned is
\* replaced by ""; otherwise the exchange is appended to the history unless
\* SkipHistory is set (a failure of AddEntry is only logged)
sendMessageAndLogHistory(client, text, o, h, s) ==
    LET r == SendMessage(client, text, s)
    IN  IF r.panic
        THEN Exchanged(r, 1, "", NoErr, h)
        ELSE IF r.err # NoErr
        THEN Exchanged(r, 1, "", r.err, h)
        ELSE IF o.SkipHistory
        THEN Exchanged(r, 1, r.resp, NoErr, h)
        ELSE Exchanged(r, 1, r.resp, NoErr, AddEntry(h, Entry(o, r.a, text, r.resp)))

----------------------------------------------------------------------------
(* internal/cli and main: shell mode *)

\* fmt.Sprintf("%q", s) for a text without quotes, backslashes or control
\* characters
Quote(str) == "\"" \o str \o "\""

formatOutput(response, format) ==
    CASE format = "json" -> "{\"response\": " \o Quote(response) \o "}"
      [] format = "markdown" -> "# LLM Response\n\n" \o response
      [] OTHER -> response

Whitespace == {" ", "\n", "\t", "\r"}

\* strings.TrimSpace
RECURSIVE TrimSpace(_)
TrimSpace(str) ==
    IF str = "" THEN ""
    ELSE IF SubSeq(str, 1, 1) \in Whitespace THEN TrimSpace(SubSeq(str, 2, Len(str)))
    ELSE IF SubSeq(str, Len(str), Len(str)) \in Whitespace
         THEN TrimSpace(SubSeq(str, 1, Len(str) - 1))
    ELSE str

DefaultShellPrompt == "Explain the following:"

\* the code fence put around the piped content: three backquotes in the
\* source, written with a character that a string of this module can hold
Fence == "~~~"

\* The -s / --shell flag on the command line: not given, given as the last
\* argument without a value, or given with a value.
NoShellFlag == [given |-> FALSE, valued |-> FALSE, value |-> ""]
ShellFlagAlone == [given |-> TRUE, valued |-> FALSE, value |-> ""]
ShellFlag(v) == [given |-> TRUE, valued |-> TRUE, value |-> v]

\* rootCmd.Flags().StringVarP(&opts.ShellPrompt, "shell", "s", "", ...): a
\* string flag takes the next argument as its value and has no value of its
\* own when none follows; the default is ""
ParseShellFlag(flag) ==
    IF ~flag.given THEN [err |-> NoErr, ShellPrompt |-> ""]
    ELSE IF ~flag.valued THEN [err |-> "flag needs an argument", ShellPrompt |-> ""]
    ELSE [err |-> NoErr, ShellPrompt |-> flag.value]

\* rootCmd.Run: shell mode is switched on by a non-empty shell prompt
rootRun(o) == [o EXCEPT !.Shell = (o.ShellPrompt # "")]

\* no call of sendMessageAndLogHistory was made
NoExchange == [sends |-> 0]

\* what a run of ShellMode yields
ShellDone(created, input, sent, exch, formatted, err, h) ==
    [created |-> created, input |-> input, sent |-> sent, exch |-> exch,
     formatted |-> formatted, err |-> err, history |-> h]

\* ShellMode, the piped content: read and trimmed when stdin is a pipe
ShellStdin(piped, stdinText) == IF piped THEN TrimSpace(stdinText) ELSE ""

\* ShellMode, the input: the prompt given, or the default one when content
\* was piped, with the piped content in a code fence
ShellInput(o, stdinContent) ==
    LET prompt == IF o.ShellPrompt # "" THEN o.ShellPrompt ELSE DefaultShellPrompt
    IN  IF stdinContent # ""
        THEN prompt \o "\n\n" \o Fence \o "\n" \o stdinContent \o "\n" \o Fence
        ELSE prompt

\* a ShellMode that puts the formatted text into the entry just recorded
ShellRespondRecordFormatted(created, o, input, c) ==
    IF c.sent.panic \/ c.err # NoErr
    THEN ShellDone(created, input, TRUE, c, "", c.err, c.history)
    ELSE ShellDone(created, input, TRUE, c, formatOutput(c.response, o.OutputFormat),
                   NoErr,
                   IF o.SkipHistory THEN c.history
                   ELSE [c.history EXCEPT ![Len(c.history)].Response =
                             formatOutput(c.response, o.OutputFormat)])

\* ShellMode, after sendMessageAndLogHistory has returned c: an error ends
\* the run, a response is formatted for printing
ShellRespond(created, o, input, c) ==
    IF c.sent.panic \/ c.err # NoErr
    THEN ShellDone(created, input, TRUE, c, "", c.err, c.history)
    ELSE ShellDone(created, input, TRUE, c, formatOutput(c.response, o.OutputFormat),
                   NoErr, c.history)

\* ShellMode, after CreateChatClient has returned: no input ends the run,
\* else the input is sent once
ShellSend(created, o, stdinContent, h, s) ==
    IF created.err # NoErr
    THEN ShellDone(created, "", FALSE, NoExchange, "", created.err, h)
    ELSE IF o.ShellPrompt = "" /\ stdinContent = ""
    THEN ShellDone(created, "", FALSE, NoExchange, "",
                   "No input provided via stdin or arguments", h)
    ELSE ShellRespond(created, o, ShellInput(o, stdinContent),
                      sendMessageAndLogHistory(created.client,
                                               ShellInput(o, stdinContent), o, h, s))

\* ShellMode: create the client, read the piped content, choose the prompt,
\* send the combined input once, format the response
ShellMode(o, e, net, piped, stdinText, h, s) ==
    ShellSend(CreateChatClient(o.Provider, e, net), o, ShellStdin(piped, stdinText), h, s)

----------------------------------------------------------------------------
(* internal/utils: RedactAPIKey *)

RedactedPlaceholder == "[REDACTED_KEY]"

\* key[:4] + "..." + key[len(key)-4:] for keys of eight characters or more
RedactAPIKey(key) ==
    IF Len(key) < 8 THEN RedactedPlaceholder
    ELSE SubSeq(key, 1, 4) \o "..." \o SubSeq(key, Len(key) - 3, Len(key))

----------------------------------------------------------------------------
(* internal/cli: the input of the interactive session *)

\* bufio.Scanner over standard input, as the lines still to be read:
\* Scan at end of input returns false and Text() then returns ""
ScanLine(stdin) ==
    IF stdin = <<>> THEN [ok |-> FALSE, text |-> "", rest |-> <<>>]
    ELSE [ok |-> TRUE, text |-> Head(stdin), rest |-> Tail(stdin)]

\* the paste loop: lines are collected until "done" or the end of input
RECURSIVE PasteLines(_, _)
PasteLines(stdin, builder) ==
    IF ~ScanLine(stdin).ok THEN [text |-> builder, rest |-> <<>>]
    ELSE IF ScanLine(stdin).text = "done"
    THEN [text |-> builder, rest |-> ScanLine(stdin).rest]
    ELSE PasteLines(ScanLine(stdin).rest, builder \o ScanLine(stdin).text \o "\n")

\* the result of handleUserInput for the line scanned
UserInput(line, rest) ==
    CASE line = "exit" -> [text |-> "", exit |-> TRUE, rest |-> rest]
      [] line = "clear" -> [text |-> "", exit |-> FALSE, rest |-> rest]
      [] line = "paste" ->
            [text |-> TrimSpace(PasteLines(rest, "").text), exit |-> FALSE,
             rest |-> PasteLines(rest, "").rest]
      [] OTHER -> [text |-> line, exit |-> FALSE, rest |-> rest]

\* variant: the text "clear" is handed on as input
handleUserInputSendClear(stdin) ==
    IF ScanLine(stdin).text = "clear"
    THEN [text |-> "clear", exit |-> FALSE, rest |-> ScanLine(stdin).rest]
    ELSE UserInput(ScanLine(stdin).text, ScanLine(stdin).rest)

handleUserInput(stdin) == UserInput(ScanLine(stdin).text, ScanLine(stdin).rest)

----------------------------------------------------------------------------
(* internal/assessment: the assessment of a prompt *)

UpperCase == "ABCDEFGHIJKLMNOPQRSTUVWXYZ"
LowerCase == "abcdefghijklmnopqrstuvwxyz"

UpperChars == {SubSeq(UpperCase, i, i) : i \in 1..26}

\* unicode.ToLower of one ASCII character
LowerOf ==
    [c \in UpperChars |->
        LET i == CHOOSE i \in 1..26 : SubSeq(UpperCase, i, i) = c
        IN  SubSeq(LowerCase, i, i)]

\* strings.ToLower, for ASCII text: every character mapped, halves joined
RECURSIVE ToLower(_)
ToLower(str) ==
    IF Len(str) = 0 THEN ""
    ELSE IF Len(str) = 1 THEN (IF str \in UpperChars THEN LowerOf[str] ELSE str)
    ELSE ToLower(SubSeq(str, 1, Len(str) \div 2))
         \o ToLower(SubSeq(str, Len(str) \div 2 + 1, Len(str)))

\* strings.ContainsAny: some character of str is one of chars
ContainsAny(str, chars) == \E i \in 1..Len(str) : SubSeq(str, i, i) \in chars

\* len(strings.Fields(text)): the number of maximal runs without white space
FieldCount(str) ==
    Cardinality({i \in 1..Len(str) :
                    /\ SubSeq(str, i, i) \notin Whitespace
                    /\ (i = 1 \/ SubSeq(str, i - 1, i - 1) \in Whitespace)})

\* containsAny: the lower-cased text contains one of the words
containsAny(text, words) == \E w \in words : Contains(ToLower(text), w)

ScoreLabels ==
    [k \in 1..5 |->
        CASE k = 1 -> "Poor"
          [] k = 2 -> "Needs Improvement"
          [] k = 3 -> "Average"
          [] k = 4 -> "Good"
          [] k = 5 -> "Excellent"]

\* AssessmentResult, without the description and the recommendation texts
AssessmentResult(name, score, rating) ==
    [Name |-> name, Score |-> score, Rating |-> rating]

taskWords ==
    {"write", "explain", "generate", "describe", "list", "summarize",
     "create", "analyze", "compare", "evaluate"}
roleWords == {"as a", "like a", "act as", "you are", "pretend", "role", "expert"}
formatWords ==
    {"list", "table", "paragraph", "json", "bullet", "code block",
     "format", "style", "markdown"}
audienceWords ==
    {"for ", "to ", "beginners", "experts", "students", "tutorial",
     "audience", "reader", "user"}
toneWords ==
    {"formal", "casual", "friendly", "professional", "encouraging",
     "tone", "style", "voice", "simple", "technical"}

evaluateClarity(text, wordCount) ==
    IF Len(text) < 5 THEN AssessmentResult("Clarity", 1, ScoreLabels[1])
    ELSE IF Len(text) < 15 THEN AssessmentResult("Clarity", 2, ScoreLabels[2])
    ELSE IF ~ContainsAny(text, {".", "?", "!"})
    THEN AssessmentResult("Clarity", 2, ScoreLabels[2])
    ELSE IF Len(text) < 40 THEN AssessmentResult("Clarity", 3, ScoreLabels[3])
    ELSE IF ~Contains(ToLower(text), "please") /\ ~Contains(ToLower(text), "could you")
    THEN AssessmentResult("Clarity", 4, ScoreLabels[4])
    ELSE AssessmentResult("Clarity", 5, ScoreLabels[5])

evaluateRelevance(text, wordCount) ==
    IF Len(text) < 3 THEN AssessmentResult("Relevance", 1, ScoreLabels[1])
    ELSE IF Len(text) < 10 THEN AssessmentResult("Relevance", 2, ScoreLabels[2])
    ELSE IF Len(text) < 30 /\ ~ContainsAny(text, {",", "-", "+"})
    THEN AssessmentResult("Relevance", 3, ScoreLabels[3])
    ELSE IF Len(text) < 60 THEN AssessmentResult("Relevance", 4, ScoreLabels[4])
    ELSE AssessmentResult("Relevance", 5, ScoreLabels[5])

evaluateSpecificity(text, wordCount) ==
    IF ~containsAny(text, taskWords)
    THEN IF Len(text) < 15 THEN AssessmentResult("Specificity", 1, ScoreLabels[1])
         ELSE AssessmentResult("Specificity", 2, ScoreLabels[2])
    ELSE IF ~ContainsAny(text, {".", ",", ";", ":"})
    THEN AssessmentResult("Specificity", 3, ScoreLabels[3])
    ELSE IF Len(text) < 50 /\ ~Contains(text, "for example") /\ ~Contains(text, "such as")
    THEN AssessmentResult("Specificity", 4, ScoreLabels[4])
    ELSE AssessmentResult("Specificity", 5, ScoreLabels[5])

evaluateContext(text, wordCount) ==
    IF wordCount < 5 THEN AssessmentResult("Context", 1, ScoreLabels[1])
    ELSE IF wordCount < 10 /\ ~Contains(text, "because") /\ ~Contains(text, "about")
    THEN AssessmentResult("Context", 2, ScoreLabels[2])
    ELSE IF wordCount < 20 /\ ~Contains(text, "since") /\ ~Contains(text, "given")
    THEN AssessmentResult("Context", 3, ScoreLabels[3])
    ELSE IF wordCount < 40 THEN AssessmentResult("Context", 4, ScoreLabels[4])
    ELSE AssessmentResult("Context", 5, ScoreLabels[5])

evaluateRichness(text, wordCount) ==
    IF wordCount < 5 THEN AssessmentResult("Richness", 1, ScoreLabels[1])
    ELSE IF wordCount < 15 /\ ~Contains(text, "like") /\ ~Contains(text, "example")
    THEN AssessmentResult("Richness", 2, ScoreLabels[2])
    ELSE IF wordCount < 30 /\ ~Contains(text, "detailed") /\ ~Contains(text, "specific")
    THEN AssessmentResult("Richness", 3, ScoreLabels[3])
    ELSE IF wordCount < 50 THEN AssessmentResult("Richness", 4, ScoreLabels[4])
    ELSE AssessmentResult("Richness", 5, ScoreLabels[5])

evaluatePersona(text, wordCount) ==
    IF ~containsAny(text, roleWords) THEN AssessmentResult("Persona", 2, ScoreLabels[2])
    ELSE IF ~Contains(ToLower(text), "expert") /\ ~Contains(ToLower(text), "professional")
    THEN AssessmentResult("Persona", 3, ScoreLabels[3])
    ELSE IF ~Contains(ToLower(text), "perspective")
    THEN AssessmentResult("Persona", 4, ScoreLabels[4])
    ELSE AssessmentResult("Persona", 5, ScoreLabels[5])

evaluateInstruction(text, wordCount) ==
    IF ~containsAny(text, taskWords) /\ wordCount < 10
    THEN AssessmentResult("Instruction", 1, ScoreLabels[1])
    ELSE IF ~containsAny(text, taskWords)
    THEN AssessmentResult("Instruction", 2, ScoreLabels[2])
    ELSE IF ~ContainsAny(text, {".", ",", ";", ":"})
    THEN AssessmentResult("Instruction", 3, ScoreLabels[3])
    ELSE IF ~Contains(text, "step") /\ ~Contains(text, "first") /\ ~Contains(text, "then")
    THEN AssessmentResult("Instruction", 4, ScoreLabels[4])
    ELSE AssessmentResult("Instruction", 5, ScoreLabels[5])

evaluateFormat(text, wordCount) ==
    IF ~containsAny(text, formatWords) THEN AssessmentResult("Format", 2, ScoreLabels[2])
    ELSE IF ~Contains(ToLower(text), "detailed") /\ ~Contains(ToLower(text), "brief")
    THEN AssessmentResult("Format", 3, ScoreLabels[3])
    ELSE IF ~Contains(ToLower(text), "example")
    THEN AssessmentResult("Format", 4, ScoreLabels[4])
    ELSE AssessmentResult("Format", 5, ScoreLabels[5])

evaluateAudience(text, wordCount) ==
    IF ~containsAny(text, audienceWords) THEN AssessmentResult("Audience", 2, ScoreLabels[2])
    ELSE IF ~Contains(ToLower(text), "level") /\ ~Contains(ToLower(text), "background")
    THEN AssessmentResult("Audience", 3, ScoreLabels[3])
    ELSE IF ~Contains(ToLower(text), "familiar") /\ ~Contains(ToLower(text), "understand")
    THEN AssessmentResult("Audience", 4, ScoreLabels[4])
    ELSE AssessmentResult("Audience", 5, ScoreLabels[5])

evaluateTone(text, wordCount) ==
    IF ~containsAny(text, toneWords) THEN AssessmentResult("Tone", 2, ScoreLabels[2])
    ELSE IF ~Contains(ToLower(text), "level") /\ ~Contains(ToLower(text), "very")
    THEN AssessmentResult("Tone", 3, ScoreLabels[3])
    ELSE IF ~Contains(ToLower(text), "example")
    THEN AssessmentResult("Tone", 4, ScoreLabels[4])
    ELSE AssessmentResult("Tone", 5, ScoreLabels[5])

evaluateData(text, wordCount) ==
    IF wordCount < 5 THEN AssessmentResult("Data", 1, ScoreLabels[1])
    ELSE IF wordCount < 10 /\ ~Contains(text, "example") /\ ~Contains(text, "data")
    THEN AssessmentResult("Data", 2, ScoreLabels[2])
    ELSE IF wordCount < 30 /\ ~Contains(text, "detail")
    THEN AssessmentResult("Data", 3, ScoreLabels[3])
    ELSE IF ~Contains(text, "context") /\ wordCount < 70
    THEN AssessmentResult("Data", 4, ScoreLabels[4])
    ELSE AssessmentResult("Data", 5, ScoreLabels[5])

\* the keys of the criteria map, in the order renderAssessment prints them
CriteriaNames ==
    <<"Clarity", "Relevance", "Specificity", "Context", "Richness",
      "Persona", "Instruction", "Format", "Audience", "Tone", "Data">>

RECURSIVE SumScores(_, _)
SumScores(criteria, names) ==
    IF names = <<>> THEN 0
    ELSE criteria[Head(names)].Score + SumScores(criteria, Tail(names))

OverallLabel(percentageScore) ==
    IF percentageScore >= 90 THEN "Excellent"
    ELSE IF percentageScore >= 75 THEN "Very Good"
    ELSE IF percentageScore >= 60 THEN "Good"
    ELSE IF percentageScore >= 40 THEN "Average"
    ELSE IF percentageScore >= 25 THEN "Needs Improvement"
    ELSE "Poor"

\* variant: the points taken out of ten criteria
calculateOverallScoreOfTen(criteria) ==
    LET totalPoints == SumScores(criteria, CriteriaNames)
        maxPoints == (Len(CriteriaNames) - 1) * 5
    IN  [score |-> (totalPoints * 100) \div maxPoints,
         rating |-> OverallLabel((totalPoints * 100) \div maxPoints)]

calculateOverallScore(criteria) ==
    LET totalPoints == SumScores(criteria, CriteriaNames)
        maxPoints == Len(CriteriaNames) * 5
    IN  [score |-> (totalPoints * 100) \div maxPoints,
         rating |-> OverallLabel((totalPoints * 100) \div maxPoints)]

\* evaluatePrompt, the criteria map
Criteria(text, wordCount) ==
    [Clarity |-> evaluateClarity(text, wordCount),
     Relevance |-> evaluateRelevance(text, wordCount),
     Specificity |-> evaluateSpecificity(text, wordCount),
     Context |-> evaluateContext(text, wordCount),
     Richness |-> evaluateRichness(text, wordCount),
     Persona |-> evaluatePersona(text, wordCount),
     Instruction |-> evaluateInstruction(text, wordCount),
     Format |-> evaluateFormat(text, wordCount),
     Audience |-> evaluateAudience(text, wordCount),
     Tone |-> evaluateTone(text, wordCount),
     Data |-> evaluateData(text, wordCount)]

\* evaluatePrompt, the assessment built from the criteria map
PromptAssessment(criteria) ==
    [Criteria |-> criteria,
     TotalScore |-> calculateOverallScore(criteria).score,
     OverallRating |-> calculateOverallScore(criteria).rating]

evaluatePrompt(text) == PromptAssessment(Criteria(text, FieldCount(text)))

\* renderAssessment, the line of a criterion up to its description
CriterionLine(result) ==
    "- " \o result.Name \o " [" \o ToString(result.Score) \o "/5]: "
         \o result.Rating \o "."

\* renderAssessment: the criterion lines, in print order
renderAssessment(assessment) ==
    [i \in 1..Len(CriteriaNames) |-> CriterionLine(assessment.Criteria[CriteriaNames[i]])]

----------------------------------------------------------------------------
(* The state machine *)

NoCall == [kind |-> "none"]
NoRet == [op |-> "none"]
NoScript == [pre |-> "unobserved"]
NoRun == [mode |-> "none"]

Create(p, net) ==
    /\ pc = "start"
    /\ LET r == CreateChatClient(p, env, net)
       IN  /\ adapter' = r.built
           /\ ret' = [op |-> "CreateChatClient", provider |-> p, net |-> net,
                      client |-> r.client, err |-> r.err]
           /\ initCalls' = initCalls + r.inits
           /\ pc' = IF r.err = NoErr THEN "ready" ELSE "createFailed"
    /\ UNCHANGED <<env, turns, failures, last, opts, history, run>>

\* an adapter constructed and initialized without the factory
InitDirect(p, net) ==
    /\ pc = "start"
    /\ LET r == Initialize(NewAdapter(p), env, net)
       IN  /\ adapter' = r.a
           /\ ret' = [op |-> "Initialize", provider |-> p, net |-> net,
                      client |-> NoAdapter, err |-> r.err]
    /\ initCalls' = initCalls + 1
    /\ pc' = "direct"
    /\ UNCHANGED <<env, turns, failures, last, opts, history, run>>

\* One input of the session handed to sendMessageAndLogHistory, the backend
\* answering with s.  last keeps the call: what the adapter's SendMessage
\* returned (resp, err), what the caller got back (response), the number of
\* SendMessage invocations; the answer itself is kept when observed.
Call(text, s, observed) ==
    /\ pc = "ready"
    /\ LET o == [Provider |-> ret.provider, SkipHistory |-> opts.SkipHistory]
           c == sendMessageAndLogHistory(adapter, text, o, history, s)
           r == c.sent
       IN  /\ adapter' = r.a
           /\ last' = [kind |-> adapter.kind, text |-> text,
                       before |-> adapter.messages,
                       script |-> IF observed THEN s ELSE NoScript,
                       requests |-> r.requests, resp |-> r.resp, err |-> r.err,
                       panic |-> r.panic,
                       sends |-> c.sends, response |-> c.response]
           /\ turns' = IF r.err = NoErr /\ ~r.panic
                       THEN Append(turns, <<text, r.resp>>) ELSE turns
           /\ failures' = IF r.err # NoErr THEN failures + 1 ELSE failures
           /\ history' = c.history
           /\ pc' = IF r.panic THEN "crashed" ELSE "ready"
    /\ UNCHANGED <<env, ret, initCalls, opts, run>>

\* a call of a conversation of at most MaxTurns calls
Send ==
    /\ pc = "ready"
    /\ Len(turns) + failures < MaxTurns
    /\ \E text \in Texts : \E s \in ShortScripts[adapter.kind] : Call(text, s, FALSE)

\* the first call on a client, with the backend's answer on record
Exchange ==
    /\ pc = "ready"
    /\ last = NoCall
    /\ \E text \in Texts : \E s \in Scripts[adapter.kind] : Call(text, s, TRUE)

Start ==
    /\ pc = "start"
    /\ adapter = NoAdapter
    /\ ret = NoRet
    /\ initCalls = 0
    /\ turns = <<>>
    /\ failures = 0
    /\ last = NoCall
    /\ history = StoredBefore
    /\ run = NoRun

\* conversations: every provider is configured
Init == env \in ChatEnvs /\ opts \in Opts /\ Start

Next ==
    \/ \E p \in ProviderNames : \E net \in NetsFor(p) : Create(p, net)
    \/ Send

Spec == Init /\ [][Next]_vars

\* one exchange, the backend's answer in every shape
NextExchange ==
    \/ \E p \in ProviderNames : \E net \in NetsFor(p) : Create(p, net)
    \/ Exchange

SpecExchange == Init /\ [][NextExchange]_vars

\* construction: the variables of one provider at a time take every value
InitFactory == env \in FocusEnvs /\ opts = [SkipHistory |-> FALSE] /\ Start

NextFactory ==
    \/ \E p \in ProviderNames : \E net \in NetsFor(p) : Create(p, net)
    \/ \E p \in Providers : \E net \in NetsFor(p) : InitDirect(p, net)

SpecFactory == InitFactory /\ [][NextFactory]_vars

\* One exchange in two steps, for the backends that may stop answering:
\* SendMessage is entered ...
Invoke ==
    /\ pc = "ready"
    /\ last = NoCall
    /\ \E text \in Texts :
         \E s \in ShortScripts[adapter.kind] \cup HangScripts[adapter.kind] :
            last' = [kind |-> adapter.kind, text |-> text, script |-> s]
    /\ pc' = "waiting"
    /\ UNCHANGED <<env, adapter, ret, initCalls, turns, failures, opts, history, run>>

\* ... and returns, once none of its reads waits any longer
Return ==
    /\ pc = "waiting"
    /\ ~Blocks(adapter, last.script)
    /\ LET o == [Provider |-> ret.provider, SkipHistory |-> opts.SkipHistory]
           c == sendMessageAndLogHistory(adapter, last.text, o, history,
                                         Observed(adapter, last.script))
           r == c.sent
       IN  /\ adapter' = r.a
           /\ last' = [kind |-> adapter.kind, text |-> last.text,
                       before |-> adapter.messages,
                       script |-> last.script,
                       requests |-> r.requests, resp |-> r.resp, err |-> r.err,
                       panic |-> r.panic,
                       sends |-> c.sends, response |-> c.response]
           /\ turns' = IF r.err = NoErr /\ ~r.panic
                       THEN Append(turns, <<last.text, r.resp>>) ELSE turns
           /\ failures' = IF r.err # NoErr THEN failures + 1 ELSE failures
           /\ history' = c.history
           /\ pc' = IF r.panic THEN "crashed" ELSE "ready"
    /\ UNCHANGED <<env, ret, initCalls, opts, run>>

\* the command lines and the standard input of the runs
ShellFlags == {NoShellFlag, ShellFlagAlone, ShellFlag(""), ShellFlag("Explain this code")}
Formats == {"text", "json", "markdown", "xml"}
StdinTexts == {"", " \n", "x = 1\n"}
\* standard input is a terminal, or a pipe that delivers a text
Stdins == {[piped |-> FALSE, text |-> ""]} \cup [piped : {TRUE}, text : StdinTexts]

\* what last keeps of a call made through sendMessageAndLogHistory
CallRecord(a, text, s, c) ==
    [kind |-> a.kind, text |-> text, before |-> a.messages, script |-> s,
     requests |-> c.sent.requests, resp |-> c.sent.resp, err |-> c.sent.err,
     panic |-> c.sent.panic, sends |-> c.sends, response |-> c.response]

\* the state after ShellMode has run and yielded d
ShellRan(d, args, p, net, s) ==
    /\ run' = [mode |-> "shell", args |-> args, input |-> d.input,
               sent |-> d.sent, formatted |-> d.formatted, err |-> d.err]
    /\ adapter' = IF d.sent THEN d.exch.sent.a ELSE d.created.built
    /\ ret' = [op |-> "CreateChatClient", provider |-> p, net |-> net,
               client |-> d.created.client, err |-> d.created.err]
    /\ initCalls' = initCalls + d.created.inits
    /\ last' = IF d.sent THEN CallRecord(d.created.client, d.input, s, d.exch)
               ELSE last
    /\ turns' = IF d.sent /\ d.err = NoErr /\ ~d.exch.sent.panic
                THEN Append(turns, <<d.input, d.exch.sent.resp>>)
                ELSE turns
    /\ failures' = IF d.sent /\ d.exch.sent.err # NoErr
                   THEN failures + 1 ELSE failures
    /\ history' = d.history
    /\ pc' = "done"

\* the state after Chat has created the client r of an interactive session
InteractiveStarted(r, args, p, net) ==
    /\ run' = [mode |-> "interactive", args |-> args, err |-> r.err]
    /\ adapter' = r.built
    /\ ret' = [op |-> "CreateChatClient", provider |-> p, net |-> net,
               client |-> r.client, err |-> r.err]
    /\ initCalls' = initCalls + r.inits
    /\ pc' = IF r.err = NoErr THEN "ready" ELSE "createFailed"
    /\ UNCHANGED <<last, turns, failures, history>>

\* One run of the program, from the command line to the end of shell mode
\* or to the start of the interactive session: the flags are parsed,
\* rootCmd.Run sets Shell, Chat dispatches.
Main(flag, format, p, net, piped, stdinText, s) ==
    /\ pc = "start"
    /\ LET parsed == ParseShellFlag(flag)
           o == rootRun([Provider |-> p, SkipHistory |-> opts.SkipHistory,
                         Shell |-> FALSE, ShellPrompt |-> parsed.ShellPrompt,
                         OutputFormat |-> format])
           args == [flag |-> flag, format |-> format, piped |-> piped,
                    stdin |-> stdinText]
       IN  IF parsed.err # NoErr
           THEN /\ run' = [mode |-> "usage", args |-> args, err |-> parsed.err]
                /\ pc' = "done"
                /\ UNCHANGED <<adapter, ret, initCalls, last, turns, failures, history>>
           ELSE IF o.Shell
           THEN ShellRan(ShellMode(o, env, net, piped, stdinText, history, s),
                         args, p, net, s)
           ELSE InteractiveStarted(CreateChatClient(p, env, net), args, p, net)
    /\ UNCHANGED <<env, opts>>

\* the providers of the runs: a streaming one and the single-shot one
RunProviders == {ProviderOpenAI, ProviderSamba}

\* a run of the program with some command line, standard input and backend
Program ==
    /\ pc = "start"
    /\ \E flag \in ShellFlags : \E format \in Formats : \E p \in RunProviders :
         \E net \in NetsFor(p) : \E stdin \in Stdins : \E s \in ShortScripts[p] :
            Main(flag, format, p, net, stdin.piped, stdin.text, s)

NextShell == Program

SpecShell == Init /\ [][NextShell]_vars

\* the entries that sessions hand to the history store
LogEntries ==
    {Entry([Provider |-> ProviderOllama], [selectedModel |-> "llama3:latest"],
           text, "Hello") : text \in Texts}

\* the values of the --count flag of the history command
Counts == -1 .. MaxEntries + 1

\* a session stores the entry of an exchange
Log(entry) ==
    /\ Len(history) < MaxEntries
    /\ history' = AddEntry(history, entry)
    /\ UNCHANGED <<env, pc, adapter, ret, initCalls, turns, failures, last, opts, run>>

\* chat-cli history -n count
HistoryCmd(count) ==
    /\ LET r == ShowHistory(history, count)
       IN  /\ run' = [mode |-> "history", count |-> count, before |-> history,
                      shown |-> r.shown, after |-> r.stored]
           /\ history' = r.stored
    /\ UNCHANGED <<env, pc, adapter, ret, initCalls, turns, failures, last, opts>>

\* chat-cli clear-history
ClearHistoryCmd ==
    /\ history # <<>>
    /\ history' = ClearHistory(history)
    /\ UNCHANGED <<env, pc, adapter, ret, initCalls, turns, failures, last, opts, run>>

NextHistory ==
    \/ \E entry \in LogEntries : Log(entry)
    \/ \E count \in Counts : HistoryCmd(count)
    \/ ClearHistoryCmd

SpecHistory == Init /\ [][NextHistory]_vars

\* the prompts assessed: an opening, a body and an ending
PromptOpenings ==
    {"", "Please ",
     "You are an expert, act as a professional teacher with the perspective of a beginner. "}
PromptBodies ==
    {"hi", "Write a clear sentence", "tell me about dogs",
     "Explain the data in a detailed list, for example as a table",
     "Could you summarize this text for students"}
PromptEndings ==
    {"", ".", "?",
     ", step by step, in a friendly tone for beginners at a very basic level who are familiar with the context and understand examples such as this one, because the background of the reader matters and the style should be simple, first read then write down every specific detail given to you in the example data."}
Prompts ==
    {o \o b \o e : <<o, b, e>> \in PromptOpenings \X PromptBodies \X PromptEndings}

\* the state after a prompt was assessed and the assessment printed
Assessed(text, assessment) ==
    /\ run' = [mode |-> "assess", text |-> text, assessment |-> assessment,
               printed |-> renderAssessment(assessment)]
    /\ UNCHANGED <<env, pc, adapter, ret, initCalls, turns, failures, last, opts, history>>

\* assessment.AssessPrompt(text), called once in a run of the program
AssessPrompt ==
    /\ pc = "start"
    /\ run = NoRun
    /\ \E text \in Prompts : Assessed(text, evaluatePrompt(text))

NextAssess == AssessPrompt

SpecAssess == Init /\ [][NextAssess]_vars

\* the lines a user types
Lines == {"", "exit", "clear", "paste", "done", "hi"}
StdinLines == UNION {[1..n -> Lines] : n \in 0..MaxLines}

\* Chat in interactive mode up to its loop: the client is created, and Chat
\* returns when that fails.  prompts is the parity of the prompts printed.
ChatStarted(r, p, net, stdin) ==
    /\ adapter' = r.built
    /\ ret' = [op |-> "CreateChatClient", provider |-> p, net |-> net,
               client |-> r.client, err |-> r.err]
    /\ initCalls' = initCalls + r.inits
    /\ run' = [mode |-> "chat", stdin |-> stdin, line |-> "", text |-> "", prompts |-> 0]
    /\ pc' = IF r.err = NoErr THEN "prompt" ELSE "done"
    /\ UNCHANGED <<env, turns, failures, last, opts, history>>

ChatStart ==
    /\ pc = "start"
    /\ \E p \in RunProviders : \E net \in NetsFor(p) : \E stdin \in StdinLines :
          ChatStarted(CreateChatClient(p, env, net), p, net, stdin)

\* the head of the loop: handleUserInput prompts and reads; exit leaves the
\* loop, an empty text goes back to the prompt, any other text is sent
Prompted(h) ==
    /\ run' = [run EXCEPT !.stdin = h.rest,
                          !.line = ScanLine(run.stdin).text,
                          !.text = h.text,
                          !.prompts = 1 - @]
    /\ pc' = IF h.exit THEN "done" ELSE IF h.text = "" THEN "prompt" ELSE "sending"
    /\ UNCHANGED <<env, adapter, ret, initCalls, turns, failures, last, opts, history>>

Input ==
    /\ pc = "prompt"
    /\ Prompted(handleUserInput(run.stdin))

\* the rest of the loop body: sendMessageAndLogHistory returns and, with or
\* without an error, the loop goes back to the prompt
Responded(c, s) ==
    /\ adapter' = c.sent.a
    /\ last' = CallRecord(adapter, run.text, s, c)
    /\ turns' = IF c.sent.err = NoErr /\ ~c.sent.panic
                THEN Append(turns, <<run.text, c.sent.resp>>) ELSE turns
    /\ failures' = IF c.sent.err # NoErr THEN failures + 1 ELSE failures
    /\ history' = c.history
    /\ pc' = IF c.sent.panic THEN "crashed" ELSE "prompt"
    /\ UNCHANGED <<env, ret, initCalls, opts, run>>

Respond ==
    /\ pc = "sending"
    /\ \E s \in ShortScripts[adapter.kind] :
          Responded(sendMessageAndLogHistory(
                        adapter, run.text,
                        [Provider |-> ret.provider, SkipHistory |-> opts.SkipHistory],
                        history, s), s)

NextSession ==
    \/ ChatStart
    \/ Input
    \/ Respond

\* the process keeps running: the loop takes its next step and a call that
\* was answered returns
SpecSession == Init /\ [][NextSession]_vars /\ WF_vars(Input) /\ WF_vars(Respond)

\* the keys written to the debug log: the key values of the environments and
\* every shorter key that begins like one of them
LoggedKeys == {SubSeq(k, 1, n) : <<k, n>> \in {<<k, n>> \in KeyValues \X (0..30) : n <= Len(k)}}

\* an Initialize writes "Using API key: " with the redacted key to its log
Redacted(key, redacted) ==
    /\ run' = [mode |-> "redact", key |-> key, redacted |-> redacted]
    /\ UNCHANGED <<env, pc, adapter, ret, initCalls, turns, failures, last, opts, history>>

LogKey ==
    /\ pc = "start"
    /\ run = NoRun
    /\ \E key \in LoggedKeys : Redacted(key, RedactAPIKey(key))

NextRedact == LogKey

SpecRedact == Init /\ [][NextRedact]_vars

\* Two chat-cli processes whose exchanges are logged to the same history
\* file.  AddEntry is LoadHistory, append, SaveHistory with no lock around
\* them: each process reads the file in one step and writes it in another.
ProcEntries ==
    {Entry([Provider |-> ProviderOllama], [selectedModel |-> "llama3:latest"],
           text, response) :
        <<text, response>> \in Texts \X {"Hello", "Hel"}}

Procs == {1, 2}

\* both processes have reached their AddEntry call
AddEntryCalled(e1, e2) ==
    /\ run' = [mode |-> "concurrent", before |-> history,
               proc |-> [i \in Procs |->
                           [at |-> "load", entry |-> IF i = 1 THEN e1 ELSE e2,
                            loaded |-> <<>>]]]
    /\ UNCHANGED <<env, pc, adapter, ret, initCalls, turns, failures, last, opts, history>>

AddEntryCalls ==
    /\ pc = "start"
    /\ run = NoRun
    /\ \E e1 \in ProcEntries : \E e2 \in ProcEntries : AddEntryCalled(e1, e2)

\* history.LoadHistory in process i: the file as it is now
LoadHistory(i) ==
    /\ run.mode = "concurrent"
    /\ run.proc[i].at = "load"
    /\ run' = [run EXCEPT !.proc[i].at = "save", !.proc[i].loaded = history]
    /\ UNCHANGED <<env, pc, adapter, ret, initCalls, turns, failures, last, opts, history>>

\* the append and history.SaveHistory in process i: the file is overwritten
\* with what the process loaded plus its entry, and AddEntry returns
SaveHistory(i) ==
    /\ run.mode = "concurrent"
    /\ run.proc[i].at = "save"
    /\ history' = Append(run.proc[i].loaded, run.proc[i].entry)
    /\ run' = [run EXCEPT !.proc[i].at = "returned"]
    /\ UNCHANGED <<env, pc, adapter, ret, initCalls, turns, failures, last, opts>>

NextConcurrent ==
    \/ AddEntryCalls
    \/ \E i \in Procs : LoadHistory(i)
    \/ \E i \in Procs : SaveHistory(i)

SpecConcurrent == Init /\ [][NextConcurrent]_vars

NextTimeout ==
    \/ \E p \in ProviderNames : \E net \in NetsFor(p) : Create(p, net)
    \/ Invoke
    \/ Return

\* a call whose reads have all completed runs on to its return
SpecTimeout == Init /\ [][NextTimeout]_vars /\ WF_vars(Return)

----------------------------------------------------------------------------
(* Properties of one exchange (SpecExchange) *)

Called == last # NoCall

Returned == Called /\ ~last.panic

Streamed == Returned /\ last.kind # ProviderSamba /\ last.script.pre = "ok"

\* the text of the first k frames of the recorded answer
TextOf(k) == Join([i \in 1..k |-> last.script.frames[i].content])

NFrames == Len(last.script.frames)

\* the frames flagged done
DoneFrames == {i \in 1..NFrames : last.script.frames[i].done}

\* C1: when the local backend answers with frames of which the last one, and
\* only the last one, is flagged done, SendMessage returns the text of all
\* frames in order with a nil error, and the conversation grows by the user
\* message followed by the assistant message holding the returned text.
C1_OllamaDoneStream ==
    (Streamed /\ last.kind = ProviderOllama /\ NFrames > 0 /\ DoneFrames = {NFrames})
    => /\ last.resp = TextOf(NFrames)
       /\ last.err = NoErr
       /\ adapter.messages =
              last.before \o <<Msg(UserRole, last.text), Msg(AssistantRole, last.resp)>>

\* the scenario 'Hel', 'lo', '' with done on the third frame, after "hi"
C1_Witness ==
    /\ Streamed
    /\ last.kind = ProviderOllama
    /\ last.text = "hi"
    /\ last.script.frames =
           <<Frame("Hel", FALSE, 1), Frame("lo", FALSE, 1), Frame("", TRUE, 1)>>
    /\ last.resp = "Hello"
    /\ Len(adapter.messages) = Len(last.before) + 2

\* the read that ends the stream reported something other than the
\* backend's end-of-stream signal, and the adapter got as far as that read
StreamBroke ==
    /\ Streamed
    /\ DoneFrames = {}
    /\ last.script.term # (IF last.kind = ProviderGemini THEN ErrDone ELSE ErrEOF)

\* C2: in every streaming adapter, a stream that breaks after k fragments
\* makes SendMessage return a non-nil error together with the text of those
\* k fragments in order.
C2_BrokenStreamReturnsPartialAndError ==
    StreamBroke => last.err # NoErr /\ last.resp = TextOf(NFrames)

\* C7: a 200 answer of the single-shot backend that parses and has no
\* choices, or an empty first choice, yields the empty text and a nil error.
C7_EmptyChoiceIsSuccess ==
    (Returned /\ last.kind = ProviderSamba /\ last.script.pre = "ok"
        /\ last.script.status = 200 /\ last.script.json
        /\ (last.script.choices = <<>> \/ Head(last.script.choices) = ""))
    => last.resp = "" /\ last.err = NoErr

C7_Witness ==
    /\ Returned
    /\ last.kind = ProviderSamba
    /\ last.script.status = 200
    /\ last.script.json
    /\ last.script.choices = <<>>
    /\ last.err = NoErr

----------------------------------------------------------------------------
(* Properties of a conversation (Spec) *)

RECURSIVE CountRole(_, _)
CountRole(ms, role) ==
    IF ms = <<>> THEN 0
    ELSE (IF Head(ms).role = role THEN 1 ELSE 0) + CountRole(Tail(ms), role)

\* the seed the claims name: none for SambaNova and Gemini, one system
\* message for the others
SeedOf(kind) ==
    IF kind \in {ProviderSamba, ProviderGemini} THEN <<>>
    ELSE <<Msg(SystemRole, SeedPrompt)>>

\* the user text and the reply of each turn, in call order
RECURSIVE Dialogue(_)
Dialogue(ts) ==
    IF ts = <<>> THEN <<>>
    ELSE <<Msg(UserRole, Head(ts)[1]), Msg(AssistantRole, Head(ts)[2])>>
         \o Dialogue(Tail(ts))

\* C3: a SendMessage that returns a non-nil error leaves the length of the
\* conversation as it was before the call.
C3_ErrorKeepsLength ==
    (Returned /\ last.err # NoErr) => Len(adapter.messages) = Len(last.before)

\* C4: a SendMessage that returns a non-nil error appends no assistant
\* message, whatever partial text it returns.
C4_ErrorAppendsNoAssistant ==
    (Returned /\ last.err # NoErr)
    => CountRole(adapter.messages, AssistantRole) = CountRole(last.before, AssistantRole)

\* a stream error after text was received, in a conversation that already
\* holds an assistant message
C4_Witness ==
    /\ Returned
    /\ last.err # NoErr
    /\ last.resp # ""
    /\ CountRole(last.before, AssistantRole) = 1

\* C5: after N calls that all returned a nil error the conversation is the
\* seed followed by the user text and the reply of each call, in call order
\* (s + 2N messages).
C5_TwoMessagesPerSuccessfulCall ==
    (pc = "ready" /\ failures = 0)
    => adapter.messages = SeedOf(adapter.kind) \o Dialogue(turns)

\* the turns and failures before the last call
EarlierTurns ==
    IF last.err = NoErr /\ ~last.panic THEN SubSeq(turns, 1, Len(turns) - 1) ELSE turns

EarlierFailures == IF last.err # NoErr THEN failures - 1 ELSE failures

\* C6: when all earlier calls succeeded, the history a SendMessage transmits
\* is the seed, the user text and reply of each earlier call in order, and
\* the new user text last.
C6_RequestCarriesAllEarlierTurns ==
    (Called /\ EarlierFailures = 0)
    => \A i \in 1..Len(last.requests) :
           last.requests[i] = SeedOf(last.kind) \o Dialogue(EarlierTurns)
                                  \o <<Msg(UserRole, last.text)>>

----------------------------------------------------------------------------
(* Properties of construction (SpecFactory) *)

Initialized == ret # NoRet /\ ret.err = NoErr

\* providers that need a credential
Credentialed == Providers \ {ProviderOllama}

\* the concrete model each provider documents as its default
DefaultModel(p) ==
    CASE p = ProviderOllama -> "llama3:latest"
      [] p = ProviderOpenAI -> "gpt-4.1-nano"
      [] p = ProviderGroq -> "gemma2-9b-it"
      [] p = ProviderTogether -> "meta-llama/Llama-3.3-70B-Instruct-Turbo-Free"
      [] p = ProviderSamba -> "Meta-Llama-3.3-70B-Instruct"
      [] p = ProviderGemini -> "gemini-2.0-flash-lite"

\* a failed Initialize has one of these causes, none of which is the alias:
\* the credential is missing or (OpenAI) malformed, the liveness probe did
\* not answer 200, the SDK client could not be constructed
InitFailureCause ==
    \/ ret.provider \in Credentialed /\ env[KeyVar(ret.provider)] = ""
    \/ ret.provider = ProviderOpenAI /\ ~ValidateAPIKey(env["OPENAI_API_KEY"], "openai")
    \/ ret.provider = ProviderOllama /\ ret.net.probe # "200"
    \/ ret.provider = ProviderGemini /\ ret.net.sdk # "ok"

\* C8: for every provider and every value of its model-alias variable, a
\* successful Initialize leaves GetModelName equal to the table entry of a
\* recognized alias and to the provider's default model otherwise, never
\* empty; and the alias never makes Initialize fail.
C8_ModelResolution ==
    /\ Initialized
       => /\ GetModelName(adapter) =
                 (IF env[ModelVar(ret.provider)] \in DOMAIN AliasTable(ret.provider)
                  THEN AliasTable(ret.provider)[env[ModelVar(ret.provider)]]
                  ELSE DefaultModel(ret.provider))
          /\ GetModelName(adapter) # ""
    /\ (ret # NoRet /\ ret.provider \in Providers /\ ret.err # NoErr) => InitFailureCause

\* an alias outside the table, and the default model selected
C8_Witness ==
    /\ Initialized
    /\ env[ModelVar(ret.provider)] = "bogus"
    /\ GetModelName(adapter) = DefaultModel(ret.provider)

\* C9: with the credential variable of a credential-requiring provider unset
\* or empty, CreateChatClient returns an error and no client and invokes no
\* Initialize, and the adapter's own Initialize fails without having created
\* a transport or SDK client.
C9_CredentialGate ==
    (ret # NoRet /\ ret.provider \in Credentialed /\ env[KeyVar(ret.provider)] = "")
    => /\ ret.err # NoErr
       /\ ret.client = NoAdapter
       /\ ret.op = "CreateChatClient" => initCalls = 0 /\ adapter = NoAdapter
       /\ ret.op = "Initialize" => adapter # NoAdapter /\ ~adapter.transport

\* the factory asked for Groq while GROQ_API_KEY is unset
C9_Witness ==
    /\ ret # NoRet
    /\ ret.op = "CreateChatClient"
    /\ ret.provider = ProviderGroq
    /\ env["GROQ_API_KEY"] = ""
    /\ ret.err # NoErr

\* C10: CreateChatClient returns exactly one of a client and an error; a
\* provider name outside the supported set yields the 'unsupported provider'
\* error and no client; a failed Initialize yields its error and no client;
\* a client that is returned is initialized.
C10_ClientOrError ==
    (ret # NoRet /\ ret.op = "CreateChatClient")
    => /\ (ret.client = NoAdapter) # (ret.err = NoErr)
       /\ ret.provider \notin Providers
          => ret.err = "unsupported provider" /\ ret.client = NoAdapter
       /\ initCalls = 1
          => ret.err = Initialize(NewAdapter(ret.provider), env, ret.net).err
       /\ ret.client # NoAdapter
          => /\ ret.client.kind = ret.provider
             /\ ret.client.transport
             /\ ret.client.selectedModel # ""

\* the local backend constructed, its probe answered 500: the object exists
\* and no client is returned
C10_Witness ==
    /\ ret # NoRet
    /\ ret.op = "CreateChatClient"
    /\ initCalls = 1
    /\ adapter # NoAdapter
    /\ adapter.transport
    /\ ret.err # NoErr
    /\ ret.client = NoAdapter

\* every API-key variable is unset
AllKeysUnset == \A p \in Credentialed : env[KeyVar(p)] = ""

\* the factory was asked for the local backend with no API key in the environment
OllamaWithoutKeys ==
    /\ ret # NoRet
    /\ ret.op = "CreateChatClient"
    /\ ret.provider = ProviderOllama
    /\ AllKeysUnset

C12_OllamaLivenessProbe ==
    (ret # NoRet /\ ret.provider = ProviderOllama)
    => /\ adapter.endpoint =
              (IF env["OLLAMA_URL"] = "" THEN "http://localhost:11434"
               ELSE env["OLLAMA_URL"])
       /\ (ret.err = NoErr) <=> (ret.net.probe = "200")
       /\ ret.net.probe = "unreachable" => ret.err = "could not connect to Ollama server"

\* Initialize called with OLLAMA_URL set, the endpoint answering 500
C12_Witness ==
    /\ ret # NoRet
    /\ ret.op = "Initialize"
    /\ ret.provider = ProviderOllama
    /\ env["OLLAMA_URL"] = "http://10.0.0.5:11434"
    /\ adapter.endpoint = "http://10.0.0.5:11434"
    /\ ret.net.probe = "500"
    /\ ret.err # NoErr

----------------------------------------------------------------------------
(* Properties of the receive loops (SpecExchange) *)

SSEKinds == {ProviderOpenAI, ProviderGroq, ProviderTogether}

HasChoices(f) == f.choices > 0

\* the adapter as it was when the last call was made
AdapterBefore == [adapter EXCEPT !.messages = last.before]

\* C13: in the SSE adapters an event without choices neither ends nor fails
\* the exchange: the call returns what it returns for the same stream
\* without that event, and the text of every event with choices, later
\* ones included, is in the response.
C13_NoChoicesEventIsSkipped ==
    (Streamed /\ last.kind \in SSEKinds
        /\ \E i \in 1..NFrames : ~HasChoices(last.script.frames[i]))
    => LET kept == SelectSeq(last.script.frames, HasChoices)
           r == SendMessage(AdapterBefore, last.text,
                            [last.script EXCEPT !.frames = kept])
       IN  /\ last.resp = Join([i \in 1..Len(kept) |-> kept[i].content])
           /\ last.resp = r.resp
           /\ last.err = r.err
           /\ adapter = r.a

\* 'Hel', an event without choices, 'lo', end of stream
C13_Witness ==
    /\ Streamed
    /\ last.kind = ProviderOpenAI
    /\ last.script.frames =
           <<Frame("Hel", FALSE, 1), Frame("", FALSE, 0), Frame("lo", FALSE, 1)>>
    /\ last.script.term = ErrEOF
    /\ last.resp = "Hello"
    /\ last.err = NoErr

\* C14: in the SSE adapters SendMessage returns a nil error and records an
\* assistant message only when the stream ended with the end-of-stream
\* signal; any other receive error, whatever its message, yields a non-nil
\* error and no assistant message.
C14_OnlyEndOfStreamSucceeds ==
    (Streamed /\ last.kind \in SSEKinds)
    => /\ (last.err = NoErr) <=> (last.script.term = ErrEOF)
       /\ last.script.term # ErrEOF
          => CountRole(adapter.messages, AssistantRole)
                 = CountRole(last.before, AssistantRole)

\* the first frame flagged done (0 when there is none)
FirstDone == IF DoneFrames = {} THEN 0
             ELSE CHOOSE d \in DoneFrames : \A e \in DoneFrames : d <= e

\* C15: the receive loop of the local adapter stops at the first of the end
\* of the stream and a frame flagged done: the response is the text of the
\* frames up to and including the done frame, and nothing after the done
\* frame (a further frame, or a failing read) has any effect on the result.
C15_OllamaStopsAtDoneOrEnd ==
    (Streamed /\ last.kind = ProviderOllama)
    => /\ FirstDone > 0
          => /\ last.resp = TextOf(FirstDone)
             /\ last.err = NoErr
             /\ adapter.messages =
                    last.before \o <<Msg(UserRole, last.text),
                                     Msg(AssistantRole, TextOf(FirstDone))>>
       /\ (FirstDone = 0 /\ last.script.term = ErrEOF)
          => last.resp = TextOf(NFrames)

\* 'Hel' flagged done, followed by a frame 'lo' and a read that fails
C15_Witness ==
    /\ Streamed
    /\ last.kind = ProviderOllama
    /\ last.script.frames = <<Frame("Hel", TRUE, 1), Frame("lo", FALSE, 1)>>
    /\ last.script.term = ErrSyntax
    /\ last.resp = "Hel"
    /\ last.err = NoErr

\* the stream of the local backend ended, cleanly (io.EOF) or cut
\* (io.ErrUnexpectedEOF), before any frame flagged done was received
ClosedBeforeDone ==
    /\ Streamed
    /\ last.kind = ProviderOllama
    /\ DoneFrames = {}
    /\ last.script.term \in {ErrEOF, ErrUnexpectedEOF}

\* C16: when the chunked stream of the local backend is closed before a
\* frame flagged done was received, SendMessage returns the text received so
\* far with a non-nil error and records no assistant turn.
C16_ClosedBeforeDoneIsError ==
    ClosedBeforeDone
    => /\ last.err # NoErr
       /\ last.resp = TextOf(NFrames)
       /\ CountRole(adapter.messages, AssistantRole)
              = CountRole(last.before, AssistantRole)

----------------------------------------------------------------------------
(* Properties of the single-shot adapter (SpecExchange) *)

\* the request was answered, with a status outside 200..299
NonSuccessStatus ==
    /\ Returned
    /\ last.kind = ProviderSamba
    /\ last.script.pre = "ok"
    /\ last.script.status \notin 200..299

\* C17: a response of the single-shot backend with a non-2xx status makes
\* SendMessage return a non-nil error that carries the status code and the
\* response body, with an empty text and the conversation as it was before
\* the call.
C17_SambaNon2xxIsError ==
    NonSuccessStatus
    => /\ last.err # NoErr
       /\ Contains(last.err, ToString(last.script.status))
       /\ Contains(last.err, last.script.body)
       /\ last.resp = ""
       /\ adapter.messages = last.before

\* status 429 with the body 'slow down'
C17_Witness ==
    /\ NonSuccessStatus
    /\ last.script.status = 429
    /\ last.err = "API request failed (429): slow down"

----------------------------------------------------------------------------
(* Properties of sendMessageAndLogHistory (Spec) *)

\* C18: nothing is retried: a call of sendMessageAndLogHistory invokes the
\* client's SendMessage exactly once, and a SendMessage issues at most one
\* request to its backend, whether the exchange succeeds or fails.
C18_NoRetry ==
    Called => last.sends = 1 /\ Len(last.requests) <= 1

\* a failed exchange in a conversation: one invocation, one request
C18_Witness ==
    /\ Called
    /\ last.err # NoErr
    /\ Len(turns) = 1
    /\ last.sends = 1
    /\ Len(last.requests) = 1

\* C19: when SendMessage fails after partial text was received,
\* sendMessageAndLogHistory returns that same partial text, together with
\* the error, to its caller.
C19_PartialTextReachesCaller ==
    (Returned /\ last.err # NoErr /\ last.resp # "")
    => last.response = last.resp

----------------------------------------------------------------------------
(* Termination of an exchange (SpecTimeout) *)

\* SendMessage was entered and the backend stops answering
WaitingOnSilence == pc = "waiting" /\ Hangs(last.script)

\* SendMessage has returned an error
ReturnedError == pc = "ready" /\ "err" \in DOMAIN last /\ last.err # NoErr

\* C20: every adapter bounds an exchange by a timeout: when the backend
\* never answers, or stops sending in the middle of a stream, SendMessage
\* eventually returns, with an error.
C20_SilentBackendTimesOut ==
    WaitingOnSilence ~> ReturnedError

\* a request of the single-shot adapter got no answer and SendMessage returned
SambaTimedOut ==
    /\ pc = "ready"
    /\ "err" \in DOMAIN last
    /\ last.kind = ProviderSamba
    /\ last.script.pre = "silent"

\* C21: a request of the single-shot adapter that times out is reported
\* with the 'request timed out' error, not with the generic 'failed to send
\* request' error.
C21_SambaTimeoutIsDistinct ==
    SambaTimedOut => last.err = "request timed out after 90s"

----------------------------------------------------------------------------
(* Properties of the history (Spec) *)

\* the entries the session has added to the history file
Logged == SubSeq(history, Len(StoredBefore) + 1, Len(history))

\* C22: with SkipHistory false every call of sendMessageAndLogHistory,
\* whether the exchange succeeded or failed, hands exactly one entry to the
\* history store.
C22_OneEntryPerCall ==
    (pc = "ready" /\ ~opts.SkipHistory)
    => Len(Logged) = Len(turns) + failures

\* C23: with SkipHistory set no exchange of the session adds, changes or
\* removes a history entry: the stored history stays what it was before the
\* session.
C23_NoHistoryLeavesStoreAlone ==
    opts.SkipHistory => history = StoredBefore

\* two successful exchanges with SkipHistory set
C23_Witness ==
    /\ opts.SkipHistory
    /\ Len(turns) = 2
    /\ history = StoredBefore

----------------------------------------------------------------------------
(* Properties of a run of the program (SpecShell) *)

\* shell mode ran and its exchange succeeded
ShellExchanged ==
    /\ run.mode = "shell"
    /\ run.sent
    /\ run.err = NoErr

\* C24: output formatting never changes what is recorded: for every output
\* format the Response of the history entry is the text the adapter's
\* SendMessage returned, and for the text format and for an unknown format
\* formatOutput returns the response unchanged.
C24_FormattingLeavesRecordAlone ==
    ShellExchanged
    => /\ ~opts.SkipHistory
          => /\ Len(history) = Len(StoredBefore) + 1
             /\ history[Len(history)].Response = last.resp
       /\ run.args.format \notin {"json", "markdown"} => run.formatted = last.resp

\* a json run: the printed text is wrapped, the recorded one is not
C24_Witness ==
    /\ ShellExchanged
    /\ ~opts.SkipHistory
    /\ run.args.format = "json"
    /\ last.resp = "Hello"
    /\ run.formatted = "{\"response\": \"Hello\"}"
    /\ history[Len(history)].Response = "Hello"

\* the program was started with the shell flag and no prompt text, some
\* content being piped on standard input
ShellWithoutPrompt ==
    /\ run.mode # "none"
    /\ run.args.flag \in {ShellFlagAlone, ShellFlag("")}
    /\ run.args.piped
    /\ TrimSpace(run.args.stdin) # ""

\* C25: started for shell mode with piped content and no prompt text, the
\* program runs shell mode and sends the default prompt combined with the
\* piped content; it neither starts the interactive session nor fails.
C25_DefaultPromptIsUsed ==
    ShellWithoutPrompt
    => /\ run.mode = "shell"
       /\ run.sent
       /\ run.input = DefaultShellPrompt \o "\n\n" \o Fence \o "\n"
                         \o TrimSpace(run.args.stdin) \o "\n" \o Fence

----------------------------------------------------------------------------
(* Properties of the history command (SpecHistory) *)

\* the history command has run
Showed == run.mode = "history"

\* the number of entries the claim has ShowHistory display
ShowCount ==
    LET n == Len(run.before)
    IN  IF run.count > 0 /\ run.count < n THEN run.count ELSE n

\* C26: ShowHistory(count) displays the last min(count, number of stored
\* entries) entries in chronological order when count > 0 and all stored
\* entries when count <= 0, and never changes the stored history.
C26_ShowHistoryShowsLast ==
    Showed
    => /\ Len(run.shown) = ShowCount
       /\ \A i \in 1..ShowCount :
             LET entry == run.before[Len(run.before) - ShowCount + i]
             IN  /\ run.shown[i].Prompt = entry.Prompt
                 /\ run.shown[i].Response = entry.Response
                 /\ run.shown[i].Provider = entry.Provider
                 /\ run.shown[i].ModelName = entry.ModelName
       /\ run.after = run.before

\* two of three different entries are shown
C26_Witness ==
    /\ Showed
    /\ run.count = 2
    /\ Len(run.before) = 3
    /\ run.before[1].Prompt # run.before[3].Prompt
    /\ Len(run.shown) = 2
    /\ run.shown[2].Prompt = run.before[3].Prompt

----------------------------------------------------------------------------
(* Properties of the resolved configuration (Spec) *)

\* C27: the configuration resolved by Initialize is immutable and
\* GetModelName only reads it: after any sequence of SendMessage calls,
\* successful or failed, GetModelName returns what it returned right after
\* Initialize, every call made in between (for the history entries) returned
\* the same, and no adapter field but the conversation has changed.
C27_ModelNameIsStable ==
    (Initialized /\ pc \in {"ready", "crashed"})
    => /\ GetModelName(adapter) = GetModelName(ret.client)
       /\ \A f \in DOMAIN ret.client \ {"messages"} : adapter[f] = ret.client[f]
       /\ \A i \in 1..Len(Logged) : Logged[i].ModelName = GetModelName(ret.client)

\* a successful and a failed call later the model name is still the one
\* Initialize selected
C27_Witness ==
    /\ Initialized
    /\ Len(turns) = 1
    /\ failures = 1
    /\ Len(Logged) = 1
    /\ GetModelName(ret.client) # ""
    /\ GetModelName(adapter) = GetModelName(ret.client)
    /\ Logged[1].ModelName = GetModelName(ret.client)

----------------------------------------------------------------------------
(* Chunked against whole-message delivery (SpecExchange) *)

\* the stream delivered all its fragments and ended in the regular way: the
\* done flag, if any, on the last frame, and the end-of-stream signal after it
DeliveredWhole ==
    /\ Streamed
    /\ DoneFrames \subseteq {NFrames}
    /\ last.script.term = (IF last.kind = ProviderGemini THEN ErrDone ELSE ErrEOF)

\* the answer of the single-shot backend that carries content in one message
WholeMessage(content) ==
    [pre |-> "ok", status |-> 200, body |-> "{choices}", json |-> TRUE,
     choices |-> <<content>>]

\* what the single-shot adapter returns for that answer
SingleShot(content) ==
    LET net == CHOOSE n \in NetsFor(ProviderSamba) : TRUE
        samba == CreateChatClient(ProviderSamba, env, net).client
    IN  SambaSendMessage(samba, last.text, WholeMessage(content)).resp

\* C28: chunked and whole-message delivery agree: however a content is cut
\* into the fragments of a stream, a streaming adapter returns the text the
\* single-shot adapter returns for the same content in one message.
C28_ChunkedAgreesWithWhole ==
    DeliveredWhole => last.resp = SingleShot(TextOf(NFrames))

\* 'Hello' in two fragments, and in one message
C28_Witness ==
    /\ DeliveredWhole
    /\ NFrames = 2
    /\ last.script.frames[1].content = "Hel"
    /\ last.script.frames[2].content = "lo"
    /\ last.resp = "Hello"
    /\ SingleShot("Hello") = "Hello"

----------------------------------------------------------------------------
(* Credentials and the form of a key (SpecFactory) *)

\* Initialize of one of the four providers named by the claim has run with
\* its credential variable set
InitializedWithKey ==
    /\ ret # NoRet
    /\ ret.op = "Initialize"
    /\ ret.provider \in {ProviderTogether, ProviderGroq, ProviderSamba, ProviderOpenAI}
    /\ env[KeyVar(ret.provider)] # ""

\* C29: Initialize of a credential-requiring provider fails only when the
\* credential variable is absent: with the variable set to a non-empty
\* value, Initialize of together, groq, samba and openai succeeds whatever
\* the form of the key and the model alias.
C29_OnlyMissingCredentialFails ==
    InitializedWithKey => ret.err = NoErr

----------------------------------------------------------------------------
(* The order of the conversation (Spec) *)

\* the messages after the seed placed by Initialize
AfterSeed == SubSeq(adapter.messages, Len(SeedOf(adapter.kind)) + 1, Len(adapter.messages))

\* C30: after any sequence of SendMessage calls, failed and retried ones
\* included, the messages after the seed alternate user, assistant, user,
\* assistant: no two consecutive messages have the same role.
C30_RolesAlternate ==
    (Initialized /\ pc = "ready")
    => \A i \in 1..Len(AfterSeed) :
           (AfterSeed[i].role = UserRole) <=> (i % 2 = 1)

----------------------------------------------------------------------------
(* Properties of the prompt assessment (SpecAssess) *)

\* the Clarity line printed for the assessed prompt
ClarityLine == run.printed[1]

\* C31: AssessPrompt reports Clarity as 2/5 'Needs Improvement' for the
\* short vague prompt 'hi' and as 5/5 'Good' for the short clear sentence
\* 'Write a clear sentence.'.
C31_ClarityOfShortPrompts ==
    run.mode = "assess"
    => /\ run.text = "hi" => ClarityLine = "- Clarity [2/5]: Needs Improvement."
       /\ run.text = "Write a clear sentence."
          => ClarityLine = "- Clarity [5/5]: Good."

\* the sum of the eleven scores of the assessment made
ScoreSum ==
    LET c == run.assessment.Criteria
    IN  c.Clarity.Score + c.Relevance.Score + c.Specificity.Score
        + c.Context.Score + c.Richness.Score + c.Persona.Score
        + c.Instruction.Score + c.Format.Score + c.Audience.Score
        + c.Tone.Score + c.Data.Score

\* the label the percentage thresholds give
ThresholdLabel(percentage) ==
    CASE percentage >= 90 -> "Excellent"
      [] percentage \in 75..89 -> "Very Good"
      [] percentage \in 60..74 -> "Good"
      [] percentage \in 40..59 -> "Average"
      [] percentage \in 25..39 -> "Needs Improvement"
      [] OTHER -> "Poor"

\* C39: for every prompt each of the eleven criteria of evaluatePrompt has a
\* Score from 1 to 5 and the Rating ScoreLabels[Score]; TotalScore is
\* floor(100 * sum of the scores / 55), lies between 20 and 100, and
\* OverallRating is the threshold label of that percentage.
C39_AssessmentIsWellFormed ==
    run.mode = "assess"
    => /\ DOMAIN run.assessment.Criteria = {CriteriaNames[i] : i \in 1..11}
       /\ \A name \in DOMAIN run.assessment.Criteria :
              /\ run.assessment.Criteria[name].Score \in 1..5
              /\ run.assessment.Criteria[name].Rating
                    = ScoreLabels[run.assessment.Criteria[name].Score]
       /\ run.assessment.TotalScore = (100 * ScoreSum) \div 55
       /\ run.assessment.TotalScore \in 20..100
       /\ run.assessment.OverallRating = ThresholdLabel(run.assessment.TotalScore)

\* a prompt was assessed whose criteria differ and whose sum is no multiple
\* of eleven, so that the percentage is rounded down
C39_Witness ==
    /\ run.mode = "assess"
    /\ \E m, n \in DOMAIN run.assessment.Criteria :
          /\ run.assessment.Criteria[m].Score = 5
          /\ run.assessment.Criteria[n].Score = 2
    /\ (100 * ScoreSum) % 55 # 0
    /\ run.assessment.OverallRating = "Good"

----------------------------------------------------------------------------
(* The conversation right after initialization (SpecFactory) *)

\* Initialize returned nil and no SendMessage was called since
FreshlyInitialized == Initialized /\ pc \in {"ready", "direct"} /\ last = NoCall

\* C32: immediately after a successful Initialize the conversation is
\* exactly the adapter's seed: one system message for Ollama, OpenAI, Groq
\* and Together, the empty sequence for Gemini and SambaNova; there is no
\* user or assistant message in it.
C32_InitializedIsSeed ==
    FreshlyInitialized
    => /\ adapter.kind \in {ProviderOllama, ProviderOpenAI, ProviderGroq, ProviderTogether}
          => /\ Len(adapter.messages) = 1
             /\ adapter.messages[1].role = SystemRole
       /\ adapter.kind \in {ProviderGemini, ProviderSamba} => adapter.messages = <<>>
       /\ CountRole(adapter.messages, UserRole) = 0
       /\ CountRole(adapter.messages, AssistantRole) = 0

\* a Gemini adapter that was initialized directly and has not been used
C32_Witness ==
    /\ FreshlyInitialized
    /\ ret.op = "Initialize"
    /\ adapter.kind = ProviderGemini
    /\ adapter.transport

----------------------------------------------------------------------------
(* The conversation is only appended to (Spec) *)

IsPrefix(p, q) == Len(p) <= Len(q) /\ SubSeq(q, 1, Len(p)) = p

\* C33: the conversation is append-only: for every adapter and every
\* SendMessage call, successful or failed, the messages before the call are
\* a prefix of the messages after it.
C33_AppendOnly ==
    Returned => IsPrefix(last.before, adapter.messages)

\* a later call of the single-shot adapter added to a conversation that
\* already held an exchange
C33_Witness ==
    /\ Returned
    /\ last.kind = ProviderSamba
    /\ Len(last.before) >= 2
    /\ Len(adapter.messages) > Len(last.before)

----------------------------------------------------------------------------
(* Properties of the interactive session (SpecSession) *)

\* C34: in the interactive loop a failed exchange never ends the session:
\* after an error the loop prompts again with the same client; the inputs
\* 'exit', 'clear' and empty lines never lead to a SendMessage call; and a
\* SendMessage is issued only after the previous one has returned.
C34_LoopSurvivesErrors ==
    [][/\ (pc = "sending" /\ last'.err # NoErr)
           => /\ pc' = "prompt"
              /\ adapter'.kind = adapter.kind
              /\ adapter'.selectedModel = adapter.selectedModel
              /\ run'.stdin = run.stdin
       /\ (pc = "prompt" /\ ScanLine(run.stdin).text \in {"exit", "clear", ""})
           => /\ pc' # "sending"
              /\ last' = last
       /\ last' # last => (pc = "sending" /\ pc' # "sending")
       /\ pc' = "sending" => pc = "prompt"]_vars

\* an exchange failed and a later input of the same session was answered
C34_Witness ==
    /\ run.mode = "chat"
    /\ pc = "prompt"
    /\ failures >= 1
    /\ Len(turns) >= 1
    /\ last.err = NoErr

\* C35: the interactive session terminates at the end of standard input even
\* without 'exit': once no input line is left, Chat eventually leaves its
\* loop and returns.
C35_EndOfInputEndsSession ==
    (run.mode = "chat" /\ pc = "prompt" /\ run.stdin = <<>>) ~> (pc = "done")

----------------------------------------------------------------------------
(* Properties of the key redaction (SpecRedact) *)

\* the redacted text is a prefix and a suffix of the key around the mask,
\* together shorter than the key
ShowsOnlyPart(key, redacted) ==
    \E i, j \in 0..Len(key) :
        /\ i + j < Len(key)
        /\ redacted = SubSeq(key, 1, i) \o "..." \o SubSeq(key, Len(key) - j + 1, Len(key))

\* C37: RedactAPIKey never discloses a whole key: a key shorter than 8
\* characters is replaced by a fixed placeholder, a longer one shows only a
\* prefix and a suffix that together are strictly shorter than the key.
C37_RedactionHidesPartOfKey ==
    run.mode = "redact"
    => \/ run.redacted = RedactedPlaceholder
       \/ ShowsOnlyPart(run.key, run.redacted)

----------------------------------------------------------------------------
(* A Gemini response without candidates (SpecExchange) *)

\* the Gemini stream of the call held a response with no candidates
GeminiGotNoCandidates ==
    /\ Called
    /\ last.kind = ProviderGemini
    /\ last.script.pre = "ok"
    /\ \E i \in 1..NFrames : ~HasChoices(last.script.frames[i])

\* C38: for the Gemini adapter a stream response that carries no candidates
\* does not crash the exchange: SendMessage still returns, skipping the
\* response or returning an error with the partial text.
C38_NoCandidatesDoesNotCrash ==
    GeminiGotNoCandidates
    => /\ ~last.panic
       /\ pc = "ready"
       /\ \/ last.err # NoErr
          \/ last.resp = TextOf(NFrames)

----------------------------------------------------------------------------
(* Two processes logging to one history file (SpecConcurrent) *)

BothReturned ==
    run.mode = "concurrent" /\ \A i \in Procs : run.proc[i].at = "returned"

\* C36: when two chat-cli processes call AddEntry concurrently on the same
\* history file, both entries are in the stored history once both calls
\* have returned, whatever the interleaving of their loads and saves.
C36_ConcurrentAddEntryKeepsBoth ==
    BothReturned
    => /\ Len(history) = Len(run.before) + 2
       /\ SubSeq(history, 1, Len(run.before)) = run.before
       /\ \E i, j \in Procs :
             /\ i # j
             /\ history[Len(run.before) + 1] = run.proc[i].entry
             /\ history[Len(run.before) + 2] = run.proc[j].entry

====
